---- MODULE Spec2Model ----
(***************************************************************************)
(* A model of autorust: the OpenAPI document loader, the reference         *)
(* resolver, the reference parser, the path joiner, the identifier         *)
(* sanitizer, the model/operation generators, run and its output folder,   *)
(* the generated operation functions and their names, and gen_crate.       *)
(*                                                                         *)
(* Strings are sequences of one-character strings, so that parsing,        *)
(* splitting and character tests are computed, not assumed.  A path is     *)
(* the sequence of its components as std::path::Path::components() yields  *)
(* them; a component is itself a string: <<"/">> is the root, <<".">> the  *)
(* current directory, <<".", ".">> the parent directory and anything else  *)
(* a normal (named) component.                                             *)
(***************************************************************************)
EXTENDS Integers, Sequences, FiniteSets, TLC

VARIABLES
    \* ---- path joiner (path::join) ----
    pver,      \* which join is running: "codegen" (join(a, b)) or "cli" (join(from_file, a, b))
    pfrom,     \* the from_file flag of the cli join
    pa,        \* argument a
    pb,        \* argument b
    pcur,      \* the PathBuf c being built
    prest,     \* the components of b not yet appended
    ppc,       \* "start" | "append" | "done" | "error"
    \* ---- reference parser (Reference::parse) ----
    rin,       \* the $ref string
    rref,      \* <<>> or <<the Reference parsed from rin>>
    rser,      \* <<>> or <<the $ref string written back from rref>>
    rref2,     \* <<>> or <<the Reference parsed from rser>>
    rpc,       \* "start" | "parsed" | "serialized" | "reparsed"
    \* ---- identifier sanitizer (ident) ----
    iin,       \* the text handed to ident
    iout,      \* the outcome: [panic, text]
    iout2,     \* the outcome of ident on the text of iout
    ipc,       \* "start" | "done" | "again"
    \* ---- document graph (Spec) and the generators (CodeGen) ----
    disk,        \* the file system: a function from file paths to OpenAPI documents
    input_files, \* Config::input_files, the list handed to Spec::read_files
    spec,        \* the Spec built by read_files: docs, schemas, parameters, input_files_paths
    gpc,         \* "new" | "loaded" | "failed" (read_files returned an error)
    load_err,    \* the error of read_files, "" if none
    resolved,    \* the last call of a resolve_* method and what it returned
    models,      \* what create_models returned
    client,      \* what create_client returned
    \* ---- run(config) and its output folder (lib.rs) ----
    api_version, \* Config::api_version, None or Some(version)
    out,         \* the output folder: for each unit None (no file) or Some(the tokens in the file)
    stage,       \* where run is: "start", ..., "done" | "failed"
    run_err,     \* the error run returned, "" if none
    log,         \* the steps run has taken, in order
    \* ---- one generated operation function (create_function) ----
    fn_api_version, \* Config::api_version of the package
    fn_parameters,  \* the names of the resolved parameters of the operation
    fn_func,        \* the generated function: its parameters and its request builder
    fn_token,       \* configuration.bearer_access_token of a call of the generated function
    fn_req,         \* the request that call builds
    fpc,            \* "start" | "generated" | "called"
    \* ---- function names (OperationVerb::function_name) ----
    op_id,          \* Operation::operation_id, None or Some(text)
    op_path,        \* the path of the operation
    verb_name,      \* the verb of the operation
    fname,          \* the (module, function) pair function_name returned
    npc,            \* "start" | "done"
    \* ---- the hash sets of create_struct and create_function_params ----
    st_properties,  \* the property names of a schema, in document order
    st_required,    \* Schema::required
    st_parameters,  \* the parameter names of an operation
    st_api_version, \* Config::api_version
    hash_order,     \* for each of two runs, the order in which its hash sets iterate
    st_out,         \* for each of two runs, the fields and parameters it emitted
    hpc,            \* "start" | "one" | "both"
    \* ---- gen_crate (examples/gen_mgmt.rs) ----
    packages,          \* the packages of the configuration document, in order
    package_i,         \* the index of the package the loop is at
    feature_mod_names, \* the (feature_name, mod_name) pairs pushed so far
    mod_runs,          \* the module folders run was called on, in order
    crate_files,       \* what cargo_toml::create and lib_rs::create were handed
    cpc,               \* "loop" | "write" | "done" | "failed"
    \* ---- the walk of add_schema_refs in create_models ----
    rs_schemas, \* all_schemas, the IndexMap the walk fills
    rs_stack,   \* the calls of add_schema_refs in progress, innermost first
    rs_visits,  \* the keys inserted into all_schemas by add_schema_refs, in order
    rs_cycles,  \* the references found to lead back to a schema whose call is in progress
    rs_err,     \* the error the walk returned, "" if none
    rs_pc,      \* "start" | "walk" | "done" | "failed"
    \* ---- the path template of one generated function ----
    tpl_path,   \* the path of the operation
    tpl_out,    \* the format string and its arguments
    tpc,        \* "start" | "done"
    \* ---- the declarations of create_models ----
    dc_schemas, \* the collected schemas, in order: name and schema
    dc_out,     \* the outcome of the third loop: the declarations or a panic
    dpc         \* "start" | "done"

pathVars == <<pver, pfrom, pa, pb, pcur, prest, ppc>>

refVars == <<rin, rref, rser, rref2, rpc>>

identVars == <<iin, iout, iout2, ipc>>

graphVars == <<disk, input_files, spec, gpc, load_err, resolved, models, client>>

runVars == <<api_version, out, stage, run_err, log>>

fnVars == <<fn_api_version, fn_parameters, fn_func, fn_token, fn_req, fpc>>

nameVars == <<op_id, op_path, verb_name, fname, npc>>

hashVars == <<st_properties, st_required, st_parameters, st_api_version, hash_order, st_out, hpc>>

crateVars == <<packages, package_i, feature_mod_names, mod_runs, crate_files, cpc>>

reachVars == <<rs_schemas, rs_stack, rs_visits, rs_cycles, rs_err, rs_pc>>

tplVars == <<tpl_path, tpl_out, tpc>>

declVars == <<dc_schemas, dc_out, dpc>>

lateVars == <<reachVars, tplVars, declVars>>

\* the machines added to the first four
moreVars == <<runVars, fnVars, nameVars, hashVars, crateVars, lateVars>>

vars == <<pathVars, refVars, identVars, graphVars, moreVars>>

(***************************************************************************)
(* Generic helpers                                                         *)
(***************************************************************************)
Last(s) == s[Len(s)]

Front(s) == SubSeq(s, 1, Len(s) - 1)

\* All sequences over S of length 0..n
SeqsUpTo(S, n) == UNION {[1..k -> S] : k \in 0..n}

\* An Option is a sequence of length 0 (None) or 1 (Some).
None == <<>>

Some(x) == <<x>>

(***************************************************************************)
(* The state of each machine while another one runs                        *)
(***************************************************************************)
PathIdle ==
    /\ pver = "none"
    /\ pfrom = FALSE
    /\ pa = <<>>
    /\ pb = <<>>
    /\ pcur = <<>>
    /\ prest = <<>>
    /\ ppc = "idle"

RefIdle ==
    /\ rin = <<>>
    /\ rref = None
    /\ rser = None
    /\ rref2 = None
    /\ rpc = "idle"

IdentIdle ==
    /\ iin = <<>>
    /\ iout = [panic |-> FALSE, text |-> <<>>]
    /\ iout2 = [panic |-> FALSE, text |-> <<>>]
    /\ ipc = "idle"

\* A Spec with nothing in it
EmptySpec == [docs |-> <<>>, schemas |-> <<>>, parameters |-> <<>>, input_files_paths |-> {}]

\* No resolve_* method was called yet
NoCall ==
    [op |-> "none", doc_path |-> <<>>, arg |-> None, ok |-> FALSE, err |-> "",
     ref_key |-> None, err_key |-> None, value |-> None]

\* create_models was not called yet
NoModels == [called |-> FALSE, ok |-> FALSE, err |-> "", all_schemas |-> <<>>, emitted |-> <<>>]

\* create_client was not called yet
NoClient == [called |-> FALSE, ok |-> FALSE, err |-> "", functions |-> <<>>, dropped |-> 0]

GraphIdle ==
    /\ disk = <<>>
    /\ input_files = <<>>
    /\ spec = EmptySpec
    /\ gpc = "idle"
    /\ load_err = ""
    /\ resolved = NoCall
    /\ models = NoModels
    /\ client = NoClient

NoFiles == [models |-> None, operations |-> None, mod |-> None]

RunIdle ==
    /\ api_version = None
    /\ out = NoFiles
    /\ stage = "idle"
    /\ run_err = ""
    /\ log = <<>>

NoFunction == [params |-> <<>>, api_version_query |-> "never"]

NoRequest == [query |-> <<>>, bearer_auth |-> None]

FnIdle ==
    /\ fn_api_version = None
    /\ fn_parameters = <<>>
    /\ fn_func = NoFunction
    /\ fn_token = None
    /\ fn_req = NoRequest
    /\ fpc = "idle"

NameIdle ==
    /\ op_id = None
    /\ op_path = <<>>
    /\ verb_name = <<>>
    /\ fname = <<None, <<>>>>
    /\ npc = "idle"

HashIdle ==
    /\ st_properties = <<>>
    /\ st_required = <<>>
    /\ st_parameters = <<>>
    /\ st_api_version = None
    /\ hash_order = <<<<>>, <<>>>>
    /\ st_out = <<None, None>>
    /\ hpc = "idle"

CrateIdle ==
    /\ packages = <<>>
    /\ package_i = 0
    /\ feature_mod_names = <<>>
    /\ mod_runs = <<>>
    /\ crate_files = None
    /\ cpc = "idle"

ReachIdle ==
    /\ rs_schemas = <<>>
    /\ rs_stack = <<>>
    /\ rs_visits = <<>>
    /\ rs_cycles = {}
    /\ rs_err = ""
    /\ rs_pc = "idle"

TplIdle ==
    /\ tpl_path = <<>>
    /\ tpl_out = <<>>
    /\ tpc = "idle"

DeclIdle ==
    /\ dc_schemas = <<>>
    /\ dc_out = <<>>
    /\ dpc = "idle"

(***************************************************************************)
(* Paths                                                                   *)
(***************************************************************************)
RootDir == <<"/">>

CurDir == <<".">>

ParentDir == <<".", ".">>

IsNormal(c) == c # RootDir /\ c # CurDir /\ c # ParentDir

\* std::path::Path::extension(): the last component is a normal one and has a
\* '.' that is not its first character.
HasExtension(p) ==
    /\ p # <<>>
    /\ IsNormal(Last(p))
    /\ \E i \in 2..Len(Last(p)) : Last(p)[i] = "."

\* std::path::PathBuf::pop(): drop the last component; the root stays.
PathPop(p) == IF p = <<>> \/ p = <<RootDir>> THEN p ELSE Front(p)

\* path_abs pop_up's helper pop_parent_components: the trailing "." and ".."
\* components are popped and the ".." among them counted.
RECURSIVE StripTrailing(_)
StripTrailing(p) ==
    IF p # <<>> /\ (Last(p) = CurDir \/ Last(p) = ParentDir)
    THEN StripTrailing(Front(p))
    ELSE p

TrailingParents(p) ==
    Cardinality({i \in (Len(StripTrailing(p)) + 1)..Len(p) : p[i] = ParentDir})

\* path_abs PathMut::pop_up for PathBuf: go up one directory.  The ".." (and
\* ".") at the end of the path are resolved first, each ".." asking for one
\* more named component to be truncated; a relative path with nothing left
\* gets the remaining ".." appended; going above the root fails.
RECURSIVE PopUpLoop(_, _)
PopUpLoop(p, parents) ==
    IF parents = 0 THEN [ok |-> TRUE, path |-> p]
    ELSE LET s == StripTrailing(p)
             n == parents + TrailingParents(p)
         IN IF s = <<>> THEN [ok |-> TRUE, path |-> [i \in 1..n |-> ParentDir]]
            ELSE IF Last(s) = RootDir THEN [ok |-> FALSE, path |-> p]
            ELSE PopUpLoop(Front(s), n - 1)

PlainPopUp(p) == [ok |-> TRUE, path |-> PathPop(p)]

PopUp(p) == PopUpLoop(p, 1)

\* One iteration of path_abs PathMut::append's loop over the components of b.
AppendComponent(p, comp) ==
    IF comp = ParentDir THEN PopUp(p)
    ELSE IF comp = CurDir \/ comp = RootDir THEN [ok |-> TRUE, path |-> p]
    ELSE [ok |-> TRUE, path |-> Append(p, comp)]

RECURSIVE PathAppend(_, _)
PathAppend(p, b) ==
    IF b = <<>> THEN [ok |-> TRUE, path |-> p]
    ELSE LET r == AppendComponent(p, Head(b))
         IN IF r.ok THEN PathAppend(r.path, Tail(b)) ELSE r

\* codegen/src/path.rs join(a, b)
join(a, b) ==
    LET c == IF HasExtension(a) THEN PopUp(a) ELSE [ok |-> TRUE, path |-> a]
    IN IF ~c.ok THEN [ok |-> FALSE, err |-> "PopUpPath", path |-> <<>>]
       ELSE LET r == PathAppend(c.path, b)
            IN IF r.ok THEN [ok |-> TRUE, err |-> "", path |-> r.path]
               ELSE [ok |-> FALSE, err |-> "AppendPath", path |-> <<>>]

\* src/path.rs join(from_file, a, b)
join_from_file(from_file, a, b) ==
    LET c == IF from_file THEN PopUp(a) ELSE [ok |-> TRUE, path |-> a]
    IN IF ~c.ok THEN [ok |-> FALSE, err |-> "PopUp", path |-> <<>>]
       ELSE LET r == PathAppend(c.path, b)
            IN IF r.ok THEN [ok |-> TRUE, err |-> "", path |-> r.path]
               ELSE [ok |-> FALSE, err |-> "Append", path |-> <<>>]

(***************************************************************************)
(* References: Reference::parse (src/reference.rs)                         *)
(***************************************************************************)
\* str::find("#/"): the first index (from 1) where "#/" starts, 0 if nowhere
Occurs(s, i) == i >= 1 /\ i + 1 <= Len(s) /\ s[i] = "#" /\ s[i + 1] = "/"

FindHashSlash(s) ==
    IF \E i \in 1..Len(s) : Occurs(s, i)
    THEN CHOOSE i \in 1..Len(s) : Occurs(s, i) /\ \A j \in 1..(i - 1) : ~Occurs(s, j)
    ELSE 0

\* str::rfind("#/")
RFindHashSlash(s) ==
    IF \E i \in 1..Len(s) : Occurs(s, i)
    THEN CHOOSE i \in 1..Len(s) : Occurs(s, i) /\ \A j \in (i + 1)..Len(s) : ~Occurs(s, j)
    ELSE 0

\* str::split(ch): the segments between the occurrences of ch, empty ones kept
RECURSIVE SplitOn(_, _)
SplitOn(s, ch) ==
    IF \E i \in 1..Len(s) : s[i] = ch
    THEN LET i == CHOOSE k \in 1..Len(s) : s[k] = ch /\ \A j \in 1..(k - 1) : s[j] # ch
         IN <<SubSeq(s, 1, i - 1)>> \o SplitOn(SubSeq(s, i + 1, Len(s)), ch)
    ELSE <<s>>

\* [str]::join(sep)
RECURSIVE JoinWith(_, _)
JoinWith(segs, sep) ==
    IF segs = <<>> THEN <<>>
    ELSE IF Len(segs) = 1 THEN segs[1]
    ELSE segs[1] \o <<sep>> \o JoinWith(Tail(segs), sep)

\* the parse with the fragment taken from the last "#/"
ReferenceParseLast(s) ==
    LET i == RFindHashSlash(s)
    IN IF i = 0 THEN [file |-> Some(s), path |-> <<>>, name |-> None]
       ELSE LET segs == SplitOn(SubSeq(s, i + 2, Len(s)), "/")
            IN [file |-> IF i = 1 THEN None ELSE Some(SubSeq(s, 1, i - 1)),
                path |-> Front(segs),
                name |-> Some(Last(segs))]

\* the parse with the name read from the path but left in it
ReferenceParseKeepName(s) ==
    LET i == FindHashSlash(s)
    IN IF i = 0 THEN [file |-> Some(s), path |-> <<>>, name |-> None]
       ELSE LET segs == SplitOn(SubSeq(s, i + 2, Len(s)), "/")
            IN [file |-> IF i = 1 THEN None ELSE Some(SubSeq(s, 1, i - 1)),
                path |-> segs,
                name |-> Some(Last(segs))]

\* Reference::parse
ReferenceParse(s) ==
    LET i == FindHashSlash(s)
    IN IF i = 0 THEN [file |-> Some(s), path |-> <<>>, name |-> None]
       ELSE LET segs == SplitOn(SubSeq(s, i + 2, Len(s)), "/")
            IN [file |-> IF i = 1 THEN None ELSE Some(SubSeq(s, 1, i - 1)),
                path |-> Front(segs),
                name |-> Some(Last(segs))]

\* a Reference written back as a $ref string: the file, then "#/" and the
\* segments joined by "/" when there is a name
ReferenceToString(r) ==
    (IF r.file = None THEN <<>> ELSE r.file[1])
    \o (IF r.name = None THEN <<>>
        ELSE <<"#", "/">> \o JoinWith(r.path \o r.name, "/"))

MaxRefLen == 6

RefChars == {"a", "#", "/"}

RefInit ==
    /\ rin \in SeqsUpTo(RefChars, MaxRefLen)
    /\ rref = None
    /\ rser = None
    /\ rref2 = None
    /\ rpc = "start"
    /\ PathIdle
    /\ IdentIdle
    /\ GraphIdle
    /\ RunIdle /\ FnIdle /\ NameIdle /\ HashIdle /\ CrateIdle /\ ReachIdle /\ TplIdle /\ DeclIdle

RefParseStep ==
    /\ rpc = "start"
    /\ rref' = Some(ReferenceParse(rin))
    /\ rpc' = "parsed"
    /\ UNCHANGED <<rin, rser, rref2, pathVars, identVars, graphVars, moreVars>>

RefSerializeStep ==
    /\ rpc = "parsed"
    /\ rser' = Some(ReferenceToString(rref[1]))
    /\ rpc' = "serialized"
    /\ UNCHANGED <<rin, rref, rref2, pathVars, identVars, graphVars, moreVars>>

RefReparseStep ==
    /\ rpc = "serialized"
    /\ rref2' = Some(ReferenceParse(rser[1]))
    /\ rpc' = "reparsed"
    /\ UNCHANGED <<rin, rref, rser, pathVars, identVars, graphVars, moreVars>>

RefNext == RefParseStep \/ RefSerializeStep \/ RefReparseStep

SpecReference == RefInit /\ [][RefNext]_vars

(***************************************************************************)
(* Claims about the reference parser                                       *)
(***************************************************************************)
HasHashSlash(s) == \E i \in 1..Len(s) : Occurs(s, i)

NoSlash(seg) == \A i \in 1..Len(seg) : seg[i] # "/"

\* C6: Reference::parse always returns a reference.  Without "#/" the whole
\* string is the file, the path is empty and there is no name.  With "#/" the
\* string is file, "#/", and the "/"-separated segments of which the last is
\* the name and the ones before it the path; the "#/" is the first one of the
\* string; the file is absent exactly when that "#/" is at position zero.
C6_Parse ==
    rpc # "start" =>
        /\ rref # None
        /\ LET r == rref[1]
               pre == IF r.file = None THEN <<>> ELSE r.file[1]
           IN IF ~HasHashSlash(rin)
              THEN r = [file |-> Some(rin), path |-> <<>>, name |-> None]
              ELSE /\ r.name # None
                   /\ (r.file = None) = Occurs(rin, 1)
                   /\ rin = pre \o <<"#", "/">> \o JoinWith(r.path \o r.name, "/")
                   /\ \A j \in 1..Len(pre) : ~Occurs(rin, j)
                   /\ NoSlash(r.name[1])
                   /\ \A k \in 1..Len(r.path) : NoSlash(r.path[k])

\* a parsed reference with a file, one path segment and a name, from a string
\* that holds "#/" twice
C6_Witness ==
    /\ rpc = "parsed"
    /\ rin = <<"a", "#", "/", "#", "/", "a">>
    /\ rref = Some([file |-> Some(<<"a">>), path |-> <<<<"#">>>>, name |-> Some(<<"a">>)])

\* C7: a parsed reference written back as a $ref string and parsed again is
\* the same reference.
C7_RoundTrip == rpc = "reparsed" => rref2 = rref

\* a round trip of a cross-file reference with a path and a name
C7_Witness ==
    /\ rpc = "reparsed"
    /\ rref[1].file # None
    /\ rref[1].name # None
    /\ Len(rref[1].path) = 2
    /\ rref2 = rref

(***************************************************************************)
(* Identifiers: ident and is_keyword (src/codegen.rs)                      *)
(***************************************************************************)
Digits == {"0", "1", "2", "3", "4", "5", "6", "7", "8", "9"}

\* the letters of the texts that are made identifiers, lower case and upper case
LowerSeq ==
    <<"a", "b", "c", "d", "e", "f", "g", "i", "j", "l", "n", "o", "p", "r", "s", "t", "u", "v">>

UpperSeq ==
    <<"A", "B", "C", "D", "E", "F", "G", "I", "J", "L", "N", "O", "P", "R", "S", "T", "U", "V">>

Letters == {LowerSeq[i] : i \in 1..Len(LowerSeq)} \cup {UpperSeq[i] : i \in 1..Len(UpperSeq)}

\* the characters proc_macro2 accepts in an Ident: first a letter or "_",
\* then letters, digits and "_"
IsIdentStart(ch) == ch \in Letters \/ ch = "_"

IsIdentContinue(ch) == ch \in Letters \/ ch \in Digits \/ ch = "_"

\* is_keyword, for the words that can be written with Letters
is_keyword(word) == word \in {<<"a", "s">>}

\* str::replace(from, to) for one-character strings
ReplaceChar(text, from, to) == [i \in 1..Len(text) |-> IF text[i] = from THEN to ELSE text[i]]

\* proc_macro2's Ident::new, which format_ident! ends in: it panics on a text
\* that is empty, a number or not made of identifier characters
IdentNew(text) ==
    IF \/ text = <<>>
       \/ \A i \in 1..Len(text) : text[i] \in Digits
       \/ ~IsIdentStart(text[1])
       \/ \E i \in 2..Len(text) : ~IsIdentContinue(text[i])
    THEN [panic |-> TRUE, text |-> <<>>]
    ELSE [panic |-> FALSE, text |-> text]

\* ident with the prefix rule applied to every first character that is not a
\* letter
identPrefixNonLetter(text) ==
    LET replaced == ReplaceChar(text, ".", "_")
    IN IF replaced = <<>> THEN [panic |-> TRUE, text |-> <<>>]
       ELSE LET prefixed == IF replaced[1] \notin Letters THEN <<"_">> \o replaced ELSE replaced
            IN IF is_keyword(prefixed) THEN IdentNew(prefixed \o <<"_">>)
               ELSE IdentNew(prefixed)

\* ident(text)
ident(text) ==
    LET replaced == ReplaceChar(text, ".", "_")
    IN IF replaced = <<>> THEN [panic |-> TRUE, text |-> <<>>]   \* chars().next().unwrap()
       ELSE LET prefixed == IF replaced[1] \in Digits THEN <<"_">> \o replaced ELSE replaced
            IN IF is_keyword(prefixed) THEN IdentNew(prefixed \o <<"_">>)
               ELSE IdentNew(prefixed)

MaxIdentLen == 3

IdentChars == {"a", "s", "3", ".", "_", "-"}

IdentInit ==
    /\ iin \in SeqsUpTo(IdentChars, MaxIdentLen)
    /\ iout = [panic |-> FALSE, text |-> <<>>]
    /\ iout2 = [panic |-> FALSE, text |-> <<>>]
    /\ ipc = "start"
    /\ PathIdle
    /\ RefIdle
    /\ GraphIdle
    /\ RunIdle /\ FnIdle /\ NameIdle /\ HashIdle /\ CrateIdle /\ ReachIdle /\ TplIdle /\ DeclIdle

IdentStep ==
    /\ ipc = "start"
    /\ iout' = ident(iin)
    /\ ipc' = "done"
    /\ UNCHANGED <<iin, iout2, pathVars, refVars, graphVars, moreVars>>

\* ident called on the identifier it returned
IdentAgainStep ==
    /\ ipc = "done"
    /\ ~iout.panic
    /\ iout2' = ident(iout.text)
    /\ ipc' = "again"
    /\ UNCHANGED <<iin, iout, pathVars, refVars, graphVars, moreVars>>

IdentNext == IdentStep \/ IdentAgainStep

SpecIdent == IdentInit /\ [][IdentNext]_vars

(***************************************************************************)
(* Claims about the identifier sanitizer                                   *)
(***************************************************************************)
\* an identifier of the target language: identifier characters only, not
\* starting with a digit, not a reserved word and not the lone "_"
ValidIdentifier(text) ==
    /\ text # <<>>
    /\ IsIdentStart(text[1])
    /\ \A i \in 2..Len(text) : IsIdentContinue(text[i])
    /\ ~is_keyword(text)
    /\ text # <<"_">>

\* C10: for every non-empty text ident returns a valid identifier of the
\* target language, every character that is not an identifier character
\* having been substituted.
C10_AsClaimed == ipc = "done" /\ iin # <<>> => ~iout.panic /\ ValidIdentifier(iout.text)

\* what ident does do on the texts made of letters, digits, "_" and ".":
\* "3.2" gives "_3_2" and a reserved word gets a "_" appended
C10_Examples ==
    /\ ident(<<"3", ".", "2">>) = [panic |-> FALSE, text |-> <<"_", "3", "_", "2">>]
    /\ ident(<<"a", "s">>) = [panic |-> FALSE, text |-> <<"a", "s", "_">>]
    /\ ident(<<"a", "-", "s">>).panic

\* C11: identifier idempotence.  Whenever ident succeeds on a text, ident of
\* the identifier it returned succeeds and returns the same identifier: a
\* reserved word that got its "_" and a text that got its "_" prefix are not
\* changed a second time.
C11_Idempotent == ipc = "again" => ~iout2.panic /\ iout2.text = iout.text

\* ident ran twice on a reserved word, on a text starting with a digit and on
\* a text with a "."
C11_Witness ==
    /\ ipc = "again"
    /\ \/ iin = <<"a", "s">> /\ iout.text = <<"a", "s", "_">>
       \/ iin = <<"3", ".", "a">> /\ iout.text = <<"_", "3", "_", "a">>

\* C12: on the empty text ident returns to its caller (with the error
\* InvalidIdentifier) and does not abort.  ident returns a TokenStream and has
\* no error value, so what is left of the claim is that it does not panic.
C12_AsClaimed == ipc = "done" /\ iin = <<>> => ~iout.panic

(***************************************************************************)
(* The path joiner as a machine: one step per statement of join and per    *)
(* iteration of append's loop.                                             *)
(***************************************************************************)
MaxALen == 3

MaxBLen == 2

\* component names the inputs are drawn from: a directory, a file with an
\* extension, and the parent directory
PathNames == {<<"d">>, <<"f", ".", "j">>, ParentDir}

\* the paths Path::components() can yield: the root or "." only in front
PathsUpTo(n) ==
    {pre \o s : pre \in {<<>>, <<RootDir>>, <<CurDir>>}, s \in SeqsUpTo(PathNames, n)}

PathInit ==
    /\ pver \in {"codegen", "cli"}
    /\ pfrom \in BOOLEAN
    /\ (pver = "codegen" => pfrom = FALSE)
    /\ pa \in PathsUpTo(MaxALen)
    /\ pb \in PathsUpTo(MaxBLen)
    /\ pcur = <<>>
    /\ prest = <<>>
    /\ ppc = "start"
    /\ RefIdle
    /\ IdentIdle
    /\ GraphIdle
    /\ RunIdle /\ FnIdle /\ NameIdle /\ HashIdle /\ CrateIdle /\ ReachIdle /\ TplIdle /\ DeclIdle

\* a join that treats every a as a file
JoinEnterAlwaysPop ==
    /\ ppc = "start"
    /\ pver = "codegen"
    /\ pcur' = PopUp(pa).path
    /\ ppc' = IF PopUp(pa).ok THEN "append" ELSE "error"
    /\ prest' = pb
    /\ UNCHANGED <<pver, pfrom, pa, pb, refVars, identVars, graphVars, moreVars>>

\* let mut c = PathBuf::from(a); if c.extension().is_some() { c.pop_up()? }
JoinEnter ==
    /\ ppc = "start"
    /\ pver = "codegen"
    /\ LET c == IF HasExtension(pa) THEN PopUp(pa) ELSE [ok |-> TRUE, path |-> pa]
       IN /\ pcur' = c.path
          /\ ppc' = IF c.ok THEN "append" ELSE "error"
    /\ prest' = pb
    /\ UNCHANGED <<pver, pfrom, pa, pb, refVars, identVars, graphVars, moreVars>>

\* let mut c = PathBuf::from(a); if from_file { c.pop_up()? }
JoinFromFileEnter ==
    /\ ppc = "start"
    /\ pver = "cli"
    /\ LET c == IF pfrom THEN PopUp(pa) ELSE [ok |-> TRUE, path |-> pa]
       IN /\ pcur' = c.path
          /\ ppc' = IF c.ok THEN "append" ELSE "error"
    /\ prest' = pb
    /\ UNCHANGED <<pver, pfrom, pa, pb, refVars, identVars, graphVars, moreVars>>

\* a join that uses PathBuf::push, which keeps ".." as it is
JoinAppendStepPush ==
    /\ ppc = "append"
    /\ prest # <<>>
    /\ pcur' = IF Head(prest) = CurDir \/ Head(prest) = RootDir THEN pcur
               ELSE Append(pcur, Head(prest))
    /\ ppc' = "append"
    /\ prest' = Tail(prest)
    /\ UNCHANGED <<pver, pfrom, pa, pb, refVars, identVars, graphVars, moreVars>>

\* c.append(b): one component of b
JoinAppendStep ==
    /\ ppc = "append"
    /\ prest # <<>>
    /\ LET r == AppendComponent(pcur, Head(prest))
       IN /\ pcur' = r.path
          /\ ppc' = IF r.ok THEN "append" ELSE "error"
    /\ prest' = Tail(prest)
    /\ UNCHANGED <<pver, pfrom, pa, pb, refVars, identVars, graphVars, moreVars>>

\* Ok(c)
JoinReturn ==
    /\ ppc = "append"
    /\ prest = <<>>
    /\ ppc' = "done"
    /\ UNCHANGED <<pver, pfrom, pa, pb, pcur, prest, refVars, identVars, graphVars, moreVars>>

PathNext == JoinEnter \/ JoinFromFileEnter \/ JoinAppendStep \/ JoinReturn

SpecPath == PathInit /\ [][PathNext]_vars

(***************************************************************************)
(* Claims about the path joiner                                            *)
(***************************************************************************)
\* the machine computes what the operators join and join_from_file compute
JoinAgrees ==
    ppc \in {"done", "error"} /\ prest = <<>> =>
        LET r == IF pver = "codegen" THEN join(pa, pb) ELSE join_from_file(pfrom, pa, pb)
        IN (ppc = "done") = r.ok /\ (r.ok => r.path = pcur)

\* the example of path.rs's test_path_join, with the names shortened:
\* ../s/p/v/r/M.A/t/20/v.j joined with ../../../../../c/m/v1/t.j
JoinExample ==
    LET a == <<ParentDir, <<"s">>, <<"p">>, <<"v">>, <<"r">>, <<"M", ".", "A">>,
               <<"t">>, <<"2", "0">>, <<"v", ".", "j">>>>
        b == <<ParentDir, ParentDir, ParentDir, ParentDir, ParentDir,
               <<"c">>, <<"m">>, <<"v", "1">>, <<"t", ".", "j">>>>
    IN join(a, b) =
         [ok |-> TRUE, err |-> "",
          path |-> <<ParentDir, <<"s">>, <<"p">>, <<"c">>, <<"m">>, <<"v", "1">>, <<"t", ".", "j">>>>]

AllParentDirs(p) == \A i \in 1..Len(p) : p[i] = ParentDir

\* the first statement of join(a, b): a loses its last component exactly when
\* that component has an extension
C8_EnterStep ==
    ppc = "start" /\ pver = "codegen" =>
        /\ pcur' = IF HasExtension(pa) THEN Front(pa) ELSE pa
        /\ ppc' = "append"
        /\ prest' = pb

\* C8 as stated: join(a, b) drops the last component of a exactly when it has
\* an extension, then appends b component by component, every ".." of b
\* removing the current last component.
C8_AsClaimed ==
    [][/\ C8_EnterStep
       /\ (ppc = "append" /\ prest # <<>> /\ pver = "codegen" /\ Head(prest) = ParentDir
             => pcur' = Front(pcur))
       /\ (ppc = "append" /\ prest # <<>> /\ pver = "codegen" /\ IsNormal(Head(prest))
             => pcur' = Append(pcur, Head(prest)))]_vars

\* C8 amended: as C8, but a ".." of b removes the current last component only
\* when that is a named component; when the path built so far is empty or
\* holds only ".." components the ".." is appended, and when it is the root
\* alone join fails.  The example of test_path_join holds.
C8_Join ==
    /\ [][/\ C8_EnterStep
          /\ (ppc = "append" /\ prest # <<>> /\ pver = "codegen" /\ IsNormal(Head(prest))
                => pcur' = Append(pcur, Head(prest)) /\ ppc' = "append")
          /\ (ppc = "append" /\ prest # <<>> /\ pver = "codegen" /\ Head(prest) = ParentDir
                => /\ (pcur # <<>> /\ IsNormal(Last(pcur))
                         => pcur' = Front(pcur) /\ ppc' = "append")
                   /\ (AllParentDirs(pcur)
                         => pcur' = Append(pcur, ParentDir) /\ ppc' = "append")
                   /\ (pcur = <<RootDir>> => ppc' = "error"))]_vars
    /\ []JoinExample

\* a finished join whose ".." of b was appended, there being nothing to remove
C8_Witness ==
    /\ ppc = "done"
    /\ pver = "codegen"
    /\ pa = <<<<"d">>, <<"f", ".", "j">>>>
    /\ pb = <<ParentDir, ParentDir>>
    /\ pcur = <<ParentDir>>

\* no ".." that follows a named component
Canonical(p) == \A i \in 2..Len(p) : ~(p[i] = ParentDir /\ IsNormal(p[i - 1]))

\* C9 as stated: whenever join succeeds its result is canonical, also when a
\* holds a ".." after a named component.
C9_AsClaimed == ppc = "done" => Canonical(pcur)

\* C9 amended: whenever join (either version) succeeds on an a that is
\* itself canonical, the result is canonical: every ".." of b that follows a
\* named component has been resolved.
C9_JoinCanonical == ppc = "done" /\ Canonical(pa) => Canonical(pcur)

\* a finished join that resolved a ".." of b against a component of a
C9_Witness ==
    /\ ppc = "done"
    /\ Canonical(pa)
    /\ \E i \in 1..Len(pb) : pb[i] = ParentDir
    /\ Len(pa) = MaxALen
    /\ IsNormal(pa[1])
    /\ Len(pcur) < Len(pa)

(***************************************************************************)
(* OpenAPI documents (autorust_openapi) as the loader and the walker see   *)
(* them.  A ReferenceOr<T> is a record with exactly one of reference and   *)
(* item set.  An IndexMap is the sequence of its [key, value] entries in   *)
(* insertion order.                                                        *)
(***************************************************************************)
\* ReferenceOr::Reference { reference }
ByRef(reference) == [reference |-> Some(reference), item |-> None]

\* ReferenceOr::Item(item)
Inline(item) == [reference |-> None, item |-> Some(item)]

IsReference(ro) == ro.reference # None

\* autorust_openapi::Reference: file is a relative path, name the last segment of the pointer
Reference(file, path, name) == [file |-> file, path |-> path, name |-> name]

\* Schema::default()
DefaultSchema ==
    [properties |-> <<>>, additional_properties |-> None, items |-> None,
     all_of |-> <<>>, type_ |-> None, enum_ |-> <<>>]

\* concatenation of a sequence of sequences
RECURSIVE Flatten(_)
Flatten(ss) == IF ss = <<>> THEN <<>> ELSE Head(ss) \o Flatten(Tail(ss))

\* the elements of a sequence, each kept at its first occurrence (IndexSet::collect)
RECURSIVE Dedup(_)
Dedup(s) ==
    IF s = <<>> THEN <<>>
    ELSE LET front == Dedup(Front(s))
         IN IF \E i \in 1..Len(front) : front[i] = Last(s) THEN front ELSE Append(front, Last(s))

TypedReference(role, reference) == [role |-> role, reference |-> reference]

\* spec.rs add_refs_for_schema: the schema $refs in properties, additionalProperties,
\* items and allOf, at any depth of inline schemas
RECURSIVE add_refs_for_schema(_)
SchemaOrRefs(ro) ==
    IF IsReference(ro) THEN <<TypedReference("Schema", ro.reference[1])>>
    ELSE add_refs_for_schema(ro.item[1])

add_refs_for_schema(schema) ==
    Flatten([i \in 1..Len(schema.properties) |-> SchemaOrRefs(schema.properties[i].value)])
    \o (IF schema.additional_properties = None THEN <<>>
        ELSE SchemaOrRefs(schema.additional_properties[1]))
    \o (IF schema.items = None THEN <<>> ELSE SchemaOrRefs(schema.items[1]))
    \o Flatten([i \in 1..Len(schema.all_of) |-> SchemaOrRefs(schema.all_of[i])])

\* get_refs, the part for one parameter of an operation
ParameterRefs(param) ==
    IF IsReference(param) THEN <<TypedReference("Parameter", param.reference[1])>>
    ELSE IF param.item[1].schema = None THEN <<>>
    ELSE SchemaOrRefs(param.item[1].schema[1])

\* get_refs, the part for one response of an operation
ResponseRefs(rsp) == IF rsp.schema = None THEN <<>> ELSE SchemaOrRefs(rsp.schema[1])

\* get_refs, the part for one x-ms-examples entry
ExampleRefs(example) ==
    IF IsReference(example) THEN <<TypedReference("Example", example.reference[1])>> ELSE <<>>

\* get_refs, the part for one operation: parameters, responses, examples
OperationRefs(op) ==
    Flatten([i \in 1..Len(op.parameters) |-> ParameterRefs(op.parameters[i])])
    \o Flatten([i \in 1..Len(op.responses) |-> ResponseRefs(op.responses[i].value)])
    \o Flatten([i \in 1..Len(op.x_ms_examples) |-> ExampleRefs(op.x_ms_examples[i].value)])

\* path_item_operations: the operations of a path item, in verb order
path_item_operations(item) == item.operations

\* get_refs, the part for one entry of paths
PathRefs(entry) ==
    IF IsReference(entry) THEN <<TypedReference("PathItem", entry.reference[1])>>
    ELSE Flatten([i \in 1..Len(path_item_operations(entry.item[1])) |->
                     OperationRefs(path_item_operations(entry.item[1])[i])])

\* spec.rs get_refs: every $ref of a document with its role, paths first, then definitions
get_refs(api) ==
    Flatten([i \in 1..Len(api.paths) |-> PathRefs(api.paths[i].value)])
    \o Flatten([i \in 1..Len(api.definitions) |-> SchemaOrRefs(api.definitions[i].value)])

IsSchemaRole(tr) == tr.role = "Schema"

IsLoadedRole(tr) == tr.role # "Example" /\ tr.reference.file # None

\* spec.rs get_api_schema_refs
ReferencesOf(refs) == [i \in 1..Len(refs) |-> refs[i].reference]

get_api_schema_refs(api) == ReferencesOf(SelectSeq(get_refs(api), IsSchemaRole))

\* spec.rs get_schema_schema_refs
get_schema_schema_refs(schema) ==
    ReferencesOf(SelectSeq(add_refs_for_schema(schema), IsSchemaRole))

\* spec.rs openapi::get_ref_files: the file parts of all but the Example refs, each once
FileParts(refs) == [i \in 1..Len(refs) |-> refs[i].reference.file[1]]

get_ref_files(api) == Dedup(FileParts(SelectSeq(get_refs(api), IsLoadedRole)))

(***************************************************************************)
(* The document graph loader: Spec::read_files (codegen/src/spec.rs)       *)
(***************************************************************************)
\* IndexMap::contains_key
ContainsKey(map, key) == \E i \in 1..Len(map) : map[i].key = key

\* IndexMap::get
Get(map, key) ==
    IF ContainsKey(map, key)
    THEN Some(map[CHOOSE i \in 1..Len(map) : map[i].key = key].value)
    ELSE None

\* IndexMap::insert: a new key goes to the end, a known key keeps its place and
\* gets the new value
Insert(map, key, value) ==
    IF ContainsKey(map, key)
    THEN [i \in 1..Len(map) |-> IF map[i].key = key THEN [key |-> key, value |-> value] ELSE map[i]]
    ELSE Append(map, [key |-> key, value |-> value])

Keys(map) == {map[i].key : i \in 1..Len(map)}

RefKey(file, name) == [file |-> file, name |-> name]

\* OpenAPI::default()
EmptyDoc == [parses |-> TRUE, paths |-> <<>>, definitions |-> <<>>, parameters |-> <<>>]

\* Path::extension() of the file name: what follows its last '.'
Extension(p) ==
    IF ~HasExtension(p) THEN None
    ELSE LET name == Last(p)
             dot == CHOOSE i \in 2..Len(name) :
                        name[i] = "." /\ \A j \in (i + 1)..Len(name) : name[j] # "."
         IN Some(SubSeq(name, dot + 1, Len(name)))

\* openapi::parse: read the file, then deserialize it as YAML or as JSON
parse(fs, path) ==
    IF path \notin DOMAIN fs THEN [ok |-> FALSE, err |-> "ReadFile", doc |-> EmptyDoc]
    ELSE IF ~fs[path].parses
    THEN [ok |-> FALSE,
          err |-> IF Extension(path) \in {Some(<<"y", "a", "m", "l">>), Some(<<"y", "m", "l">>)}
                  THEN "DeserializeYaml" ELSE "DeserializeJson",
          doc |-> EmptyDoc]
    ELSE [ok |-> TRUE, err |-> "", doc |-> fs[path]]

\* read_files, the inner loop: the files one input file refers to are loaded
\* unless already in docs
RECURSIVE LoadRefFiles(_, _, _, _)
LoadRefFiles(fs, docs, input_file, ref_files) ==
    LET Parsed(doc_path, doc) ==
            IF ~doc.ok THEN [ok |-> FALSE, err |-> doc.err, docs |-> docs]
            ELSE LoadRefFiles(fs, Insert(docs, doc_path, doc.doc), input_file, Tail(ref_files))
        Joined(doc_path) ==
            IF ~doc_path.ok THEN [ok |-> FALSE, err |-> "PathJoin", docs |-> docs]
            ELSE IF ContainsKey(docs, doc_path.path)
            THEN LoadRefFiles(fs, docs, input_file, Tail(ref_files))
            ELSE Parsed(doc_path.path, parse(fs, doc_path.path))
    IN IF ref_files = <<>> THEN [ok |-> TRUE, err |-> "", docs |-> docs]
       ELSE Joined(join(input_file, Head(ref_files)))

\* read_files, the outer loop over the input files
RECURSIVE LoadInputFiles(_, _, _)
LoadInputFiles(fs, docs, inputs) ==
    LET Loaded(loaded) ==
            IF ~loaded.ok THEN loaded ELSE LoadInputFiles(fs, loaded.docs, Tail(inputs))
        Parsed(doc) ==
            IF ~doc.ok THEN [ok |-> FALSE, err |-> doc.err, docs |-> docs]
            ELSE Loaded(LoadRefFiles(fs, Insert(docs, Head(inputs), doc.doc),
                                     Head(inputs), get_ref_files(doc.doc)))
    IN IF inputs = <<>> THEN [ok |-> TRUE, err |-> "", docs |-> docs]
       ELSE Parsed(parse(fs, Head(inputs)))

\* read_files, the schema index of one document: its inline definitions only
IsInlineEntry(entry) == ~IsReference(entry.value)

DocSchemas(path, doc) ==
    LET Keyed(inline) ==
            [i \in 1..Len(inline) |->
                [key |-> RefKey(path, inline[i].key), value |-> inline[i].value.item[1]]]
    IN Keyed(SelectSeq(doc.definitions, IsInlineEntry))

\* read_files, the parameter index of one document
DocParameters(path, doc) ==
    [i \in 1..Len(doc.parameters) |->
        [key |-> RefKey(path, doc.parameters[i].key), value |-> doc.parameters[i].value]]

\* Spec::read_files
read_files(fs, input_files_paths) ==
    LET Indexed(docs) ==
            [docs |-> docs,
             schemas |-> Flatten([i \in 1..Len(docs) |-> DocSchemas(docs[i].key, docs[i].value)]),
             parameters |-> Flatten([i \in 1..Len(docs) |-> DocParameters(docs[i].key, docs[i].value)]),
             input_files_paths |-> {input_files_paths[i] : i \in 1..Len(input_files_paths)}]
        Loaded(loaded) ==
            IF ~loaded.ok THEN [ok |-> FALSE, err |-> loaded.err, spec |-> EmptySpec]
            ELSE [ok |-> TRUE, err |-> "", spec |-> Indexed(loaded.docs)]
    IN Loaded(LoadInputFiles(fs, <<>>, input_files_paths))

\* Spec::is_input_file
is_input_file(sp, path) == path \in sp.input_files_paths

(***************************************************************************)
(* The resolver: Spec::resolve_* (codegen/src/spec.rs)                     *)
(***************************************************************************)
Failed(op, doc_path, arg, err, err_key) ==
    [op |-> op, doc_path |-> doc_path, arg |-> arg, ok |-> FALSE, err |-> err,
     ref_key |-> None, err_key |-> err_key, value |-> None]

Returned(op, doc_path, arg, ref_key, value) ==
    [op |-> op, doc_path |-> doc_path, arg |-> arg, ok |-> TRUE, err |-> "",
     ref_key |-> ref_key, err_key |-> None, value |-> Some(value)]

\* resolve_schema_ref with the file part of the reference left out of the key
resolve_schema_ref_same_file(sp, doc_path, reference) ==
    LET Found(ref_key, schema) ==
            IF schema = None
            THEN Failed("resolve_schema_ref", doc_path, Some(reference), "SchemaNotFound", Some(ref_key))
            ELSE Returned("resolve_schema_ref", doc_path, Some(reference), Some(ref_key), schema[1])
    IN IF reference.name = None
       THEN Failed("resolve_schema_ref", doc_path, Some(reference), "NoNameInReference", None)
       ELSE Found(RefKey(doc_path, reference.name[1]),
                  Get(sp.schemas, RefKey(doc_path, reference.name[1])))

\* Spec::resolve_schema_ref
resolve_schema_ref(sp, doc_path, reference) ==
    LET Found(ref_key, schema) ==
            IF schema = None
            THEN Failed("resolve_schema_ref", doc_path, Some(reference), "SchemaNotFound", Some(ref_key))
            ELSE Returned("resolve_schema_ref", doc_path, Some(reference), Some(ref_key), schema[1])
        Joined(full_path) ==
            IF ~full_path.ok
            THEN Failed("resolve_schema_ref", doc_path, Some(reference), "PathJoin", None)
            ELSE IF reference.name = None
            THEN Failed("resolve_schema_ref", doc_path, Some(reference), "NoNameInReference", None)
            ELSE Found(RefKey(full_path.path, reference.name[1]),
                       Get(sp.schemas, RefKey(full_path.path, reference.name[1])))
    IN IF reference.file = None THEN Joined([ok |-> TRUE, err |-> "", path |-> doc_path])
       ELSE Joined(join(doc_path, reference.file[1]))

\* Spec::resolve_parameter_ref
resolve_parameter_ref(sp, doc_path, reference) ==
    LET Found(param) ==
            IF param = None
            THEN Failed("resolve_parameter_ref", doc_path, Some(reference), "ParameterNotFound", None)
            ELSE Returned("resolve_parameter_ref", doc_path, Some(reference), None, param[1])
        Joined(full_path) ==
            IF ~full_path.ok
            THEN Failed("resolve_parameter_ref", doc_path, Some(reference), "PathJoin", None)
            ELSE IF reference.name = None
            THEN Failed("resolve_parameter_ref", doc_path, Some(reference), "NoNameInReference", None)
            ELSE Found(Get(sp.parameters, RefKey(full_path.path, reference.name[1])))
    IN IF reference.file = None THEN Joined([ok |-> TRUE, err |-> "", path |-> doc_path])
       ELSE Joined(join(doc_path, reference.file[1]))

\* Spec::resolve_schema
resolve_schema(sp, doc_path, ref_or_schema) ==
    IF IsReference(ref_or_schema)
    THEN resolve_schema_ref(sp, doc_path, ref_or_schema.reference[1])
    ELSE Returned("resolve_schema", doc_path, None, None, ref_or_schema.item[1])

\* Spec::resolve_schema_map: the entries resolved in order, the first error returned
RECURSIVE resolve_schema_map(_, _, _)
resolve_schema_map(sp, doc_path, ref_or_schemas) ==
    IF ref_or_schemas = <<>> THEN [ok |-> TRUE, err |-> "", resolved |-> <<>>]
    ELSE LET Both(rest, one) ==
                 IF ~rest.ok THEN rest
                 ELSE IF ~one.ok THEN [ok |-> FALSE, err |-> one.err, resolved |-> <<>>]
                 ELSE [ok |-> TRUE, err |-> "",
                       resolved |-> Insert(rest.resolved, Last(ref_or_schemas).key,
                                           [ref_key |-> one.ref_key, schema |-> one.value[1]])]
         IN Both(resolve_schema_map(sp, doc_path, Front(ref_or_schemas)),
                 resolve_schema(sp, doc_path, Last(ref_or_schemas).value))

\* resolve_path that hands a path-item reference back as an empty path item
resolve_path_lenient(sp, doc_path, path) ==
    IF IsReference(path)
    THEN Returned("resolve_path", doc_path, None, None, [operations |-> <<>>])
    ELSE Returned("resolve_path", doc_path, None, None, path.item[1])

\* Spec::resolve_path
resolve_path(sp, doc_path, path) ==
    IF IsReference(path)
    THEN Failed("resolve_path", doc_path, path.reference, "NotImplemented", None)
    ELSE Returned("resolve_path", doc_path, None, None, path.item[1])

\* Spec::resolve_path_map
RECURSIVE resolve_path_map(_, _, _)
resolve_path_map(sp, doc_file, paths) ==
    IF paths = <<>> THEN [ok |-> TRUE, err |-> "", resolved |-> <<>>]
    ELSE LET Both(rest, one) ==
                 IF ~rest.ok THEN rest
                 ELSE IF ~one.ok THEN [ok |-> FALSE, err |-> one.err, resolved |-> <<>>]
                 ELSE [ok |-> TRUE, err |-> "",
                       resolved |-> Insert(rest.resolved, Last(paths).key, one.value[1])]
         IN Both(resolve_path_map(sp, doc_file, Front(paths)),
                 resolve_path(sp, doc_file, Last(paths).value))

\* Spec::resolve_parameter
resolve_parameter(sp, doc_file, parameter) ==
    IF IsReference(parameter)
    THEN resolve_parameter_ref(sp, doc_file, parameter.reference[1])
    ELSE Returned("resolve_parameter", doc_file, None, None, parameter.item[1])

\* Spec::resolve_parameters
RECURSIVE resolve_parameters(_, _, _)
resolve_parameters(sp, doc_file, parameters) ==
    IF parameters = <<>> THEN [ok |-> TRUE, err |-> "", resolved |-> <<>>]
    ELSE LET Both(rest, one) ==
                 IF ~rest.ok THEN rest
                 ELSE IF ~one.ok THEN [ok |-> FALSE, err |-> one.err, resolved |-> <<>>]
                 ELSE [ok |-> TRUE, err |-> "", resolved |-> Append(rest.resolved, one.value[1])]
         IN Both(resolve_parameters(sp, doc_file, Front(parameters)),
                 resolve_parameter(sp, doc_file, Last(parameters)))

(***************************************************************************)
(* The model generator: CodeGen::create_models (src/codegen.rs)            *)
(***************************************************************************)
Done(names) == [ok |-> TRUE, err |-> "", names |-> names]

Error(err) == [ok |-> FALSE, err |-> err, names |-> {}]

\* the first error of a sequence of results (the ? operator inside a loop),
\* or else all the type names they mention
AllOrFirstError(results) ==
    IF \E i \in 1..Len(results) : ~results[i].ok
    THEN results[CHOOSE i \in 1..Len(results) :
                    ~results[i].ok /\ \A j \in 1..(i - 1) : results[j].ok]
    ELSE Done(UNION {results[i].names : i \in 1..Len(results)})

\* get_type_name_for_schema with get_schema_array_items: the named types the
\* type of a schema mentions
RECURSIVE get_type_name_for_schema(_)
get_type_name_for_schema_ref(schema) ==
    IF IsReference(schema)
    THEN IF schema.reference[1].name = None THEN Error("no name for ref")
         ELSE Done({schema.reference[1].name[1]})
    ELSE get_type_name_for_schema(schema.item[1])

get_type_name_for_schema(schema) ==
    IF schema.type_ = Some("array")
    THEN IF schema.items = None THEN Error("array expected to have items")
         ELSE get_type_name_for_schema_ref(schema.items[1])
    ELSE Done({})

is_schema_an_array(schema) == schema.schema.type_ = Some("array")

is_local_enum(property) == Len(property.schema.enum_) > 0

is_local_struct(property) == Len(property.schema.properties) > 0

\* create_vec_alias
create_vec_alias(schema) ==
    IF schema.schema.items = None THEN Error("array expected to have items")
    ELSE get_type_name_for_schema_ref(schema.schema.items[1])

\* create_struct with create_struct_field_type: the allOf entries become
\* flattened fields, the properties are resolved against doc_file and become
\* fields, inline object properties become nested structs
RECURSIVE create_struct(_, _, _)
create_struct_field_type(sp, doc_file, property) ==
    IF property.ref_key # None THEN Done({property.ref_key[1].name})
    ELSE IF is_local_enum(property) THEN Done({})
    ELSE IF is_local_struct(property) THEN create_struct(sp, doc_file, property)
    ELSE get_type_name_for_schema(property.schema)

create_struct(sp, doc_file, schema) ==
    LET Fields(all_of, properties) ==
            IF ~all_of.ok THEN all_of
            ELSE IF ~properties.ok THEN Error(properties.err)
            ELSE AllOrFirstError(<<all_of>> \o [i \in 1..Len(properties.resolved) |->
                     create_struct_field_type(sp, doc_file, properties.resolved[i].value)])
    IN Fields(AllOrFirstError([i \in 1..Len(schema.schema.all_of) |->
                  get_type_name_for_schema_ref(schema.schema.all_of[i])]),
              resolve_schema_map(sp, doc_file, schema.schema.properties))

Collected(schemas) == [ok |-> TRUE, err |-> "", schemas |-> schemas]

\* add_schema_refs that inserts the schema and leaves its own refs alone
add_schema_refs_no_recursion(sp, schemas, doc_file, schema_ref) ==
    LET Resolved(schema) ==
            IF ~schema.ok THEN [ok |-> FALSE, err |-> schema.err, schemas |-> schemas]
            ELSE IF /\ ~ContainsKey(schemas, schema.ref_key[1])
                    /\ ~is_input_file(sp, schema.ref_key[1].file)
            THEN Collected(Insert(schemas, schema.ref_key[1],
                                  [ref_key |-> schema.ref_key, schema |-> schema.value[1]]))
            ELSE Collected(schemas)
    IN Resolved(resolve_schema_ref(sp, doc_file, schema_ref))

\* add_schema_refs: a schema of a file that is no input file is collected
\* once, and then the schemas it refers to, resolved against its own file
RECURSIVE add_schema_refs(_, _, _, _)
RECURSIVE AddAllSchemaRefs(_, _, _, _)
AddAllSchemaRefs(sp, schemas, doc_file, refs) ==
    IF refs = <<>> THEN Collected(schemas)
    ELSE LET Added(one) ==
                 IF ~one.ok THEN one ELSE AddAllSchemaRefs(sp, one.schemas, doc_file, Tail(refs))
         IN Added(add_schema_refs(sp, schemas, doc_file, Head(refs)))

add_schema_refs(sp, schemas, doc_file, schema_ref) ==
    LET Resolved(schema) ==
            IF ~schema.ok THEN [ok |-> FALSE, err |-> schema.err, schemas |-> schemas]
            ELSE IF /\ ~ContainsKey(schemas, schema.ref_key[1])
                    /\ ~is_input_file(sp, schema.ref_key[1].file)
            THEN AddAllSchemaRefs(sp,
                     Insert(schemas, schema.ref_key[1],
                            [ref_key |-> schema.ref_key, schema |-> schema.value[1]]),
                     schema.ref_key[1].file,
                     get_schema_schema_refs(schema.value[1]))
            ELSE Collected(schemas)
    IN Resolved(resolve_schema_ref(sp, doc_file, schema_ref))

\* create_models, first loop: all definitions of the input files
RECURSIVE CollectDefinitions(_, _, _)
CollectDefinitions(sp, schemas, docs) ==
    IF docs = <<>> THEN Collected(schemas)
    ELSE IF ~is_input_file(sp, Head(docs).key)
    THEN CollectDefinitions(sp, schemas, Tail(docs))
    ELSE LET Keyed(doc_file, map) ==
                 [i \in 1..Len(map) |->
                     [key |-> RefKey(doc_file, map[i].key), value |-> map[i].value]]
             Resolved(doc_file, map) ==
                 IF ~map.ok THEN [ok |-> FALSE, err |-> map.err, schemas |-> schemas]
                 ELSE CollectDefinitions(sp, schemas \o Keyed(doc_file, map.resolved), Tail(docs))
         IN Resolved(Head(docs).key,
                     resolve_schema_map(sp, Head(docs).key, Head(docs).value.definitions))

\* create_models, second loop: the schemas the input files refer to
RECURSIVE CollectReferenced(_, _, _)
CollectReferenced(sp, schemas, docs) ==
    IF docs = <<>> THEN Collected(schemas)
    ELSE IF ~is_input_file(sp, Head(docs).key)
    THEN CollectReferenced(sp, schemas, Tail(docs))
    ELSE LET Added(added) ==
                 IF ~added.ok THEN added ELSE CollectReferenced(sp, added.schemas, Tail(docs))
         IN Added(AddAllSchemaRefs(sp, schemas, Head(docs).key,
                                   get_api_schema_refs(Head(docs).value)))

\* create_models, third loop, one schema: array alias, enum or struct
EmitSchema(sp, entry) ==
    IF is_schema_an_array(entry.value) THEN create_vec_alias(entry.value)
    ELSE IF is_local_enum(entry.value) THEN Done({})
    ELSE create_struct(sp, entry.key.file, entry.value)

\* the third loop without the check of schema_names: every collected schema is emitted
RECURSIVE EmitAllNoSkip(_, _, _, _)
EmitAllNoSkip(sp, all_schemas, schema_names, emitted) ==
    IF all_schemas = <<>> THEN [ok |-> TRUE, err |-> "", emitted |-> emitted]
    ELSE LET Emitted(entry, tp) ==
                 IF ~tp.ok THEN [ok |-> FALSE, err |-> tp.err, emitted |-> emitted]
                 ELSE EmitAllNoSkip(sp, Tail(all_schemas), schema_names \cup {entry.key.name},
                                    Append(emitted, [key |-> entry.key,
                                                     ref_key |-> entry.value.ref_key,
                                                     schema |-> entry.value.schema,
                                                     names |-> tp.names]))
         IN Emitted(Head(all_schemas), EmitSchema(sp, Head(all_schemas)))

\* create_models, third loop: a schema whose name was already seen is skipped
\* with a warning, any other is emitted
RECURSIVE EmitAll(_, _, _, _)
EmitAll(sp, all_schemas, schema_names, emitted) ==
    IF all_schemas = <<>> THEN [ok |-> TRUE, err |-> "", emitted |-> emitted]
    ELSE LET Emitted(entry, tp) ==
                 IF ~tp.ok THEN [ok |-> FALSE, err |-> tp.err, emitted |-> emitted]
                 ELSE EmitAll(sp, Tail(all_schemas), schema_names \cup {entry.key.name},
                              Append(emitted, [key |-> entry.key,
                                               ref_key |-> entry.value.ref_key,
                                               schema |-> entry.value.schema,
                                               names |-> tp.names]))
         IN IF Head(all_schemas).key.name \in schema_names
            THEN EmitAll(sp, Tail(all_schemas), schema_names, emitted)
            ELSE Emitted(Head(all_schemas), EmitSchema(sp, Head(all_schemas)))

\* CodeGen::create_models
create_models(sp) ==
    LET Written(all_schemas, file) ==
            [called |-> TRUE, ok |-> file.ok, err |-> file.err,
             all_schemas |-> all_schemas, emitted |-> file.emitted]
        Referenced(all_schemas) ==
            IF ~all_schemas.ok
            THEN [called |-> TRUE, ok |-> FALSE, err |-> all_schemas.err,
                  all_schemas |-> all_schemas.schemas, emitted |-> <<>>]
            ELSE Written(all_schemas.schemas, EmitAll(sp, all_schemas.schemas, {}, <<>>))
        Defined(definitions) ==
            IF ~definitions.ok
            THEN [called |-> TRUE, ok |-> FALSE, err |-> definitions.err,
                  all_schemas |-> definitions.schemas, emitted |-> <<>>]
            ELSE Referenced(CollectReferenced(sp, definitions.schemas, sp.docs))
    IN Defined(CollectDefinitions(sp, <<>>, sp.docs))

(***************************************************************************)
(* The operation generator: CodeGen::create_client (src/codegen.rs)        *)
(***************************************************************************)
\* get_param_type
get_param_type(param) ==
    IF param.type_ # None THEN Done({})
    ELSE IF param.schema # None THEN get_type_name_for_schema_ref(param.schema[1])
    ELSE Done({})

\* create_function_params
create_function_params(sp, doc_file, op) ==
    LET Typed(parameters) ==
            IF ~parameters.ok THEN Error(parameters.err)
            ELSE AllOrFirstError([i \in 1..Len(parameters.resolved) |->
                                     get_param_type(parameters.resolved[i])])
    IN Typed(resolve_parameters(sp, doc_file, op.parameters))

\* create_function_return: the type of the first response that has a schema
create_function_return(op) ==
    LET First(with_schema) == CHOOSE i \in with_schema : \A j \in with_schema : i <= j
        Return(with_schema) ==
            IF with_schema = {} THEN Done({})
            ELSE get_type_name_for_schema_ref(op.responses[First(with_schema)].value.schema[1])
    IN Return({i \in 1..Len(op.responses) : op.responses[i].value.schema # None})

\* create_function
create_function(sp, doc_file, op) ==
    LET Function(fparams, fresponse) == IF ~fparams.ok THEN fparams ELSE fresponse
    IN Function(create_function_params(sp, doc_file, op), create_function_return(op))

\* create_client, the functions of one document: file.extend(create_function(..))
\* adds the function of an Ok and nothing of an Err
DocFunctions(sp, doc_file, paths) ==
    LET Named(fparams, fresponse) ==
            IF fparams.ok /\ fresponse.ok THEN fparams.names \cup fresponse.names ELSE {}
        Functions(path, ops) ==
            [j \in 1..Len(ops) |->
                [doc_file |-> doc_file, path |-> path, operation_id |-> ops[j].operation_id,
                 ok |-> create_function(sp, doc_file, ops[j]).ok,
                 names |-> Named(create_function_params(sp, doc_file, ops[j]),
                                 create_function_return(ops[j]))]]
    IN Flatten([i \in 1..Len(paths) |->
                   Functions(paths[i].key, path_item_operations(paths[i].value))])

\* create_client, the loop over all documents of the Spec
RECURSIVE ClientOfDocs(_, _, _)
ClientOfDocs(sp, docs, functions) ==
    IF docs = <<>> THEN [ok |-> TRUE, err |-> "", functions |-> functions]
    ELSE LET Resolved(paths) ==
                 IF ~paths.ok THEN [ok |-> FALSE, err |-> paths.err, functions |-> functions]
                 ELSE ClientOfDocs(sp, Tail(docs),
                          functions \o DocFunctions(sp, Head(docs).key, paths.resolved))
         IN Resolved(resolve_path_map(sp, Head(docs).key, Head(docs).value.paths))

IsOk(r) == r.ok

\* CodeGen::create_client
create_client(sp) ==
    LET Written(file) ==
            [called |-> TRUE, ok |-> file.ok, err |-> file.err,
             functions |-> IF file.ok THEN SelectSeq(file.functions, IsOk) ELSE <<>>,
             dropped |-> IF file.ok
                         THEN Len(file.functions) - Len(SelectSeq(file.functions, IsOk))
                         ELSE 0]
    IN Written(ClientOfDocs(sp, sp.docs, <<>>))

(***************************************************************************)
(* The files on disk.  a.j and b.j lie in the working directory, c.j in    *)
(* the directory d; e.j is an example file that is never on disk.          *)
(***************************************************************************)
FileA == <<<<"a", ".", "j">>>>

FileB == <<<<"b", ".", "j">>>>

FileC == <<<<"d">>, <<"c", ".", "j">>>>

FileE == <<<<"e", ".", "j">>>>

Files == {FileA, FileB, FileC}

Entry(key, value) == [key |-> key, value |-> value]

SchemaRef(file, name) == ByRef(Reference(file, <<"definitions">>, Some(name)))

ParameterRef(file, name) == ByRef(Reference(file, <<"parameters">>, Some(name)))

PathItemRef(file, name) == ByRef(Reference(file, <<"paths">>, Some(name)))

ExampleRef(file) == ByRef(Reference(Some(file), <<>>, None))

Struct(properties) ==
    [DefaultSchema EXCEPT !.properties = properties, !.type_ = Some("object")]

ArrayOf(items) == [DefaultSchema EXCEPT !.type_ = Some("array"), !.items = Some(items)]

EnumOf(values) == [DefaultSchema EXCEPT !.type_ = Some("string"), !.enum_ = values]

Operation(operation_id, parameters, responses, x_ms_examples) ==
    [operation_id |-> operation_id, parameters |-> parameters,
     responses |-> responses, x_ms_examples |-> x_ms_examples]

Response(schema) == [schema |-> schema]

Parameter(name, type_, schema) == [name |-> name, type_ |-> type_, schema |-> schema]

PathItem(operations) == [operations |-> operations]

Doc(paths, definitions, parameters) ==
    [parses |-> TRUE, paths |-> paths, definitions |-> definitions, parameters |-> parameters]

\* the documents a.j may hold
DocsA ==
    { \* an operation with a parameter of b.j, a response and an example; X refers to Y of ./b.j
      Doc(<<Entry("/x", Inline(PathItem(<<
                Operation("Get",
                          <<ParameterRef(Some(FileB), "P")>>,
                          <<Entry("200", Response(Some(SchemaRef(None, "X"))))>>,
                          <<Entry("ex", ExampleRef(FileE))>>)>>)))>>,
          <<Entry("X", Inline(Struct(<<Entry("y", SchemaRef(Some(<<CurDir>> \o FileB), "Y"))>>)))>>,
          <<>>),
      \* Y refers to the Y of b.j: one name in two files
      Doc(<<>>,
          <<Entry("Y", Inline(Struct(<<Entry("y", SchemaRef(Some(FileB), "Y"))>>)))>>,
          <<>>),
      \* Al is an alias of Y of b.j, X an array of it
      Doc(<<>>,
          <<Entry("Al", SchemaRef(Some(FileB), "Y")),
            Entry("X", Inline(ArrayOf(SchemaRef(Some(FileB), "Y"))))>>,
          <<>>),
      \* a path entry that is a $ref
      Doc(<<Entry("/p", PathItemRef(Some(FileB), "p"))>>,
          <<Entry("X", Inline(Struct(<<>>)))>>,
          <<>>),
      \* W is composed of Al, an alias of X in the same file
      Doc(<<>>,
          <<Entry("Al", SchemaRef(None, "X")),
            Entry("X", Inline(Struct(<<>>))),
            Entry("W", Inline([Struct(<<>>) EXCEPT !.all_of = <<SchemaRef(None, "Al")>>]))>>,
          <<>>),
      \* two operations, the second with a parameter Q that no document defines
      Doc(<<Entry("/x", Inline(PathItem(<<
                Operation("Get", <<>>, <<Entry("200", Response(Some(SchemaRef(None, "X"))))>>, <<>>)>>))),
            Entry("/z", Inline(PathItem(<<
                Operation("List", <<ParameterRef(None, "Q")>>, <<Entry("200", Response(None))>>, <<>>)>>)))>>,
          <<Entry("X", Inline(Struct(<<>>)))>>,
          <<>>),
      \* X refers to Y of b.j and to Z of d/c.j
      Doc(<<>>,
          <<Entry("X", Inline(Struct(<<Entry("y", SchemaRef(Some(FileB), "Y")),
                                       Entry("z", SchemaRef(Some(FileC), "Z"))>>)))>>,
          <<>>) }

\* the documents b.j may hold
DocsB ==
    { \* Y refers to Z of d/c.j; the body parameter P is a V, and an operation
      \* returns a V, which no schema refers to
      Doc(<<Entry("/v", Inline(PathItem(<<
                Operation("GetV", <<>>, <<Entry("200", Response(Some(SchemaRef(None, "V"))))>>, <<>>)>>)))>>,
          <<Entry("Y", Inline(Struct(<<Entry("z", SchemaRef(Some(FileC), "Z"))>>))),
            Entry("V", Inline(Struct(<<>>)))>>,
          <<Entry("P", Parameter("p", None, Some(SchemaRef(None, "V"))))>>),
      \* Y holds an inline object that refers to W, W is an array of Y; an
      \* operation with an inline body parameter
      Doc(<<Entry("/y", Inline(PathItem(<<
                Operation("Put",
                          <<Inline(Parameter("body", None, Some(SchemaRef(None, "Y"))))>>,
                          <<Entry("200", Response(None))>>,
                          <<>>)>>)))>>,
          <<Entry("Y", Inline(Struct(<<Entry("x", Inline(Struct(<<Entry("w", SchemaRef(None, "W"))>>)))>>))),
            Entry("W", Inline(ArrayOf(SchemaRef(None, "Y"))))>>,
          <<Entry("P", Parameter("p", None, Some(SchemaRef(None, "W"))))>>),
      \* a path entry that is a $ref, Y an enum, no parameters
      Doc(<<Entry("/q", PathItemRef(None, "q"))>>,
          <<Entry("Y", Inline(EnumOf(<<"v">>)))>>,
          <<>>),
      \* not an OpenAPI document
      [EmptyDoc EXCEPT !.parses = FALSE] }

\* the documents d/c.j may hold
DocsC ==
    { Doc(<<>>, <<Entry("Z", Inline(Struct(<<>>)))>>, <<>>),
      \* the values of the map Z are the Y of ../b.j
      Doc(<<>>,
          <<Entry("Z", Inline([Struct(<<>>) EXCEPT
                !.additional_properties = Some(SchemaRef(Some(<<ParentDir>> \o FileB), "Y"))]))>>,
          <<>>) }

\* a disk with a.j and d/c.j, and with b.j unless b is None
DiskOf(a, b, c) ==
    [f \in (IF b = None THEN {FileA, FileC} ELSE Files) |->
        IF f = FileA THEN a ELSE IF f = FileC THEN c ELSE b[1]]

Disks == {DiskOf(a, b, c) : a \in DocsA, b \in {None} \cup {Some(d) : d \in DocsB}, c \in DocsC}

\* the longest list of input files
MaxInputs == 2

InputLists == UNION {[1..n -> Files] : n \in 1..MaxInputs}

(***************************************************************************)
(* The document graph machine: CodeGen::new loads the Spec, then the       *)
(* resolver and the generators are called on it.                           *)
(***************************************************************************)
Init ==
    /\ disk \in Disks
    /\ input_files \in InputLists
    /\ spec = EmptySpec
    /\ gpc = "new"
    /\ load_err = ""
    /\ resolved = NoCall
    /\ models = NoModels
    /\ client = NoClient
    /\ PathIdle
    /\ RefIdle
    /\ IdentIdle
    /\ RunIdle /\ FnIdle /\ NameIdle /\ HashIdle /\ CrateIdle /\ ReachIdle /\ TplIdle /\ DeclIdle

\* CodeGen::new: Spec::read_files(&config.input_files)
ReadFiles ==
    /\ gpc = "new"
    /\ LET Read(r) ==
               /\ spec' = r.spec
               /\ gpc' = IF r.ok THEN "loaded" ELSE "failed"
               /\ load_err' = r.err
       IN Read(read_files(disk, input_files))
    /\ UNCHANGED <<disk, input_files, resolved, models, client, pathVars, refVars, identVars, moreVars>>

\* the references a caller may hand to the resolver: those of the loaded
\* documents and one without a name
ReferenceSet(refs) == {refs[k].reference : k \in 1..Len(refs)}

CallerReferences ==
    UNION {ReferenceSet(get_refs(spec.docs[i].value)) : i \in 1..Len(spec.docs)}
    \cup {Reference(None, <<>>, None)}

\* the paths a caller may resolve against: those of the loaded documents and the root
DocPaths == Keys(spec.docs) \cup {<<RootDir>>}

\* A run makes one call of the resolver, on the Spec as read_files left it:
\* the resolver reads the Spec only, so its calls do not depend on each other.
FreshlyLoaded == gpc = "loaded" /\ resolved = NoCall /\ ~models.called /\ ~client.called

ResolveSchemaRef ==
    /\ FreshlyLoaded
    /\ \E doc_path \in DocPaths, reference \in CallerReferences :
          resolved' = resolve_schema_ref(spec, doc_path, reference)
    /\ UNCHANGED <<disk, input_files, spec, gpc, load_err, models, client, pathVars, refVars, identVars, moreVars>>

ResolveParameterRef ==
    /\ FreshlyLoaded
    /\ \E doc_path \in DocPaths, reference \in CallerReferences :
          resolved' = resolve_parameter_ref(spec, doc_path, reference)
    /\ UNCHANGED <<disk, input_files, spec, gpc, load_err, models, client, pathVars, refVars, identVars, moreVars>>

ResolveSchema ==
    /\ FreshlyLoaded
    /\ \E i \in 1..Len(spec.docs) :
          \E k \in 1..Len(spec.docs[i].value.definitions) :
              resolved' = [resolve_schema(spec, spec.docs[i].key,
                                          spec.docs[i].value.definitions[k].value)
                              EXCEPT !.op = "resolve_schema",
                                     !.arg = Some(spec.docs[i].value.definitions[k].value)]
    /\ UNCHANGED <<disk, input_files, spec, gpc, load_err, models, client, pathVars, refVars, identVars, moreVars>>

ResolvePath ==
    /\ FreshlyLoaded
    /\ \E i \in 1..Len(spec.docs) :
          \E k \in 1..Len(spec.docs[i].value.paths) :
              resolved' = [resolve_path(spec, spec.docs[i].key, spec.docs[i].value.paths[k].value)
                              EXCEPT !.arg = Some(spec.docs[i].value.paths[k].value)]
    /\ UNCHANGED <<disk, input_files, spec, gpc, load_err, models, client, pathVars, refVars, identVars, moreVars>>

ResolvePathMap ==
    /\ FreshlyLoaded
    /\ \E i \in 1..Len(spec.docs) :
          LET Resolved(r) ==
                  resolved' = [op |-> "resolve_path_map", doc_path |-> spec.docs[i].key,
                               arg |-> Some(spec.docs[i].value.paths), ok |-> r.ok, err |-> r.err,
                               ref_key |-> None, err_key |-> None, value |-> Some(r.resolved)]
          IN Resolved(resolve_path_map(spec, spec.docs[i].key, spec.docs[i].value.paths))
    /\ UNCHANGED <<disk, input_files, spec, gpc, load_err, models, client, pathVars, refVars, identVars, moreVars>>

CreateModels ==
    /\ gpc = "loaded"
    /\ ~models.called
    /\ models' = create_models(spec)
    /\ UNCHANGED <<disk, input_files, spec, gpc, load_err, resolved, client, pathVars, refVars, identVars, moreVars>>

CreateClient ==
    /\ gpc = "loaded"
    /\ ~client.called
    /\ client' = create_client(spec)
    /\ UNCHANGED <<disk, input_files, spec, gpc, load_err, resolved, models, pathVars, refVars, identVars, moreVars>>

Next ==
    \/ ReadFiles
    \/ ResolveSchemaRef
    \/ ResolveParameterRef
    \/ ResolveSchema
    \/ ResolvePath
    \/ ResolvePathMap
    \/ CreateModels
    \/ CreateClient

Spec == Init /\ [][Next]_vars

(***************************************************************************)
(* Properties of the document graph                                        *)
(***************************************************************************)
SetOf(s) == {s[i] : i \in 1..Len(s)}

\* the files a document on disk refers to in its schema, parameter and
\* path-item $refs, each joined to the path of the document
JoinedPaths(f, ref_files) ==
    {join(f, rf).path : rf \in {x \in SetOf(ref_files) : join(f, x).ok}}

RefTargets(fs, f) == IF fs[f].parses THEN JoinedPaths(f, get_ref_files(fs[f])) ELSE {}

\* the files reachable from a set of files by following such $refs transitively
RECURSIVE ReachableFiles(_, _)
ReachableFiles(fs, seen) ==
    LET Grown(next) == IF next = seen THEN seen ELSE ReachableFiles(fs, next)
    IN Grown(seen \cup UNION {RefTargets(fs, f) : f \in seen \cap DOMAIN fs})

\* C1: after read_files succeeds, docs holds every file on disk that is
\* reachable from an input file by following file-carrying schema, parameter
\* or path-item $refs transitively, also through documents that are not inputs.
C1_AsClaimed ==
    gpc = "loaded" =>
        \A f \in ReachableFiles(disk, SetOf(input_files)) \cap DOMAIN disk :
            ContainsKey(spec.docs, f)

\* a $ref of the document at path f points to something that is on disk: its
\* file is there and holds an inline definition (a parameter) of that name
PointsToDisk(fs, f, tr) ==
    LET Target(file) ==
            /\ file.ok
            /\ file.path \in DOMAIN fs
            /\ fs[file.path].parses
            /\ tr.reference.name # None
            /\ IF tr.role = "Schema"
               THEN \E k \in 1..Len(fs[file.path].definitions) :
                       /\ fs[file.path].definitions[k].key = tr.reference.name[1]
                       /\ ~IsReference(fs[file.path].definitions[k].value)
               ELSE \E k \in 1..Len(fs[file.path].parameters) :
                       fs[file.path].parameters[k].key = tr.reference.name[1]
    IN IF tr.reference.file = None THEN Target([ok |-> TRUE, err |-> "", path |-> f])
       ELSE Target(join(f, tr.reference.file[1]))

\* every schema and parameter $ref of every document on disk points to
\* something that is on disk
WellFormedDisk ==
    \A f \in DOMAIN disk :
        disk[f].parses =>
            \A tr \in SetOf(get_refs(disk[f])) :
                tr.role \in {"Schema", "Parameter"} => PointsToDisk(disk, f, tr)

\* every schema and parameter $ref get_refs emits for a loaded document
\* resolves against the path of that document
AllRefsResolve ==
    \A i \in 1..Len(spec.docs) :
        \A tr \in SetOf(get_refs(spec.docs[i].value)) :
            /\ tr.role = "Schema" => resolve_schema_ref(spec, spec.docs[i].key, tr.reference).ok
            /\ tr.role = "Parameter" =>
                   resolve_parameter_ref(spec, spec.docs[i].key, tr.reference).ok

\* C2: index completeness.  After read_files succeeds on input whose every
\* $ref points to something on disk, every $ref get_refs emits in any loaded
\* document resolves (resolve_schema_ref for Schema, resolve_parameter_ref
\* for Parameter), unless its role is PathItem or Example.
C2_AsClaimed == gpc = "loaded" /\ WellFormedDisk => AllRefsResolve

EmittedNames == {models.emitted[i].key.name : i \in 1..Len(models.emitted)}

EmittedKeys == {models.emitted[i].key : i \in 1..Len(models.emitted)}

\* the file whose document holds the emitted schema: the file of the
\* definition, or the file of its target where the definition is an alias
HomeFile(e) == IF e.ref_key = None THEN e.key.file ELSE e.ref_key[1].file

\* C3 as the spec states it: whenever create_models succeeds, every schema
\* $ref at any depth inside an emitted schema resolves to a schema that is
\* itself in the emitted set.
C3_AsClaimed ==
    models.called /\ models.ok =>
        \A e \in SetOf(models.emitted) :
            \A r \in SetOf(get_schema_schema_refs(e.schema)) :
                LET InEmitted(res) == res.ok /\ res.ref_key[1] \in EmittedKeys
                IN InEmitted(resolve_schema_ref(spec, HomeFile(e), r))

\* C3: whenever create_models succeeds, every schema $ref at any depth inside
\* an emitted schema resolves to a schema that create_models collected, and a
\* schema of the same name is emitted: of the collected schemas that share a
\* name only the first is emitted.  So every type an emitted type names is
\* declared.
C3_ClosedByName ==
    models.called /\ models.ok =>
        \A e \in SetOf(models.emitted) :
            /\ e.names \subseteq EmittedNames
            /\ \A r \in SetOf(get_schema_schema_refs(e.schema)) :
                   LET Collects(res) ==
                           /\ res.ok
                           /\ res.ref_key[1] \in Keys(models.all_schemas)
                           /\ res.ref_key[1].name \in EmittedNames
                   IN Collects(resolve_schema_ref(spec, HomeFile(e), r))

\* create_models succeeded, it emitted a schema of a file that is no input
\* file which itself refers to schemas, and it skipped a schema whose name
\* was already taken
C3_Witness ==
    /\ models.called
    /\ models.ok
    /\ \E e \in SetOf(models.emitted) :
           ~is_input_file(spec, e.key.file) /\ get_schema_schema_refs(e.schema) # <<>>
    /\ Keys(models.all_schemas) # EmittedKeys

\* the key resolve_schema_ref looks up: the path of the document, or the
\* file part of the reference joined to it, and the name of the reference
Joinable(doc_path, reference) ==
    reference.file = None \/ join(doc_path, reference.file[1]).ok

LookedUp(doc_path, reference) ==
    RefKey(IF reference.file = None THEN doc_path ELSE join(doc_path, reference.file[1]).path,
           reference.name[1])

SchemaRefOutcome(r, reference) ==
    LET Outcome(key) ==
            IF key \in Keys(spec.schemas)
            THEN /\ r.ok
                 /\ r.ref_key = Some(key)
                 /\ \E i \in 1..Len(spec.schemas) :
                        spec.schemas[i].key = key /\ r.value = Some(spec.schemas[i].value)
            ELSE /\ ~r.ok
                 /\ r.err = "SchemaNotFound"
                 /\ r.err_key = Some(key)
    IN Joinable(r.doc_path, reference) /\ reference.name # None =>
           Outcome(LookedUp(r.doc_path, reference))

\* C4: resolve_schema_ref(doc_path, reference), for a reference that has a
\* name and a file part that can be joined, looks up (file, name) with file
\* doc_path when the reference has no file part and join(doc_path,
\* reference.file) otherwise; it returns the indexed schema with exactly that
\* key as ref_key, or fails with SchemaNotFound carrying that key;
\* resolve_schema on an inline schema returns it with no ref_key.
C4_ResolveSchemaRef ==
    /\ resolved.op = "resolve_schema_ref" => SchemaRefOutcome(resolved, resolved.arg[1])
    /\ resolved.op = "resolve_schema" /\ IsReference(resolved.arg[1]) =>
           SchemaRefOutcome(resolved, resolved.arg[1].reference[1])
    /\ resolved.op = "resolve_schema" /\ ~IsReference(resolved.arg[1]) =>
           /\ resolved.ok
           /\ resolved.ref_key = None
           /\ resolved.value = resolved.arg[1].item

\* a reference with a file part was resolved to a schema of another file
C4_Witness ==
    /\ resolved.op = "resolve_schema_ref"
    /\ resolved.ok
    /\ resolved.arg[1].file # None
    /\ resolved.ref_key[1].file # resolved.doc_path

HasPathItemRef(paths) == \E k \in 1..Len(paths) : IsReference(paths[k].value)

\* C5: a path entry that is a $ref is a fatal NotImplemented: resolve_path
\* fails on it, resolve_path_map fails if any entry of the map is one, and
\* create_client fails if any loaded document holds one.
C5_PathItemRefFatal ==
    /\ resolved.op = "resolve_path" /\ IsReference(resolved.arg[1]) =>
           ~resolved.ok /\ resolved.err = "NotImplemented"
    /\ resolved.op = "resolve_path_map" /\ HasPathItemRef(resolved.arg[1]) =>
           ~resolved.ok /\ resolved.err = "NotImplemented"
    /\ client.called /\ (\E i \in 1..Len(spec.docs) : HasPathItemRef(spec.docs[i].value.paths)) =>
           ~client.ok /\ client.err = "NotImplemented"

\* create_client was called on a Spec whose only path-item $ref is in a
\* document that is no input file
C5_Witness ==
    /\ client.called
    /\ \E i \in 1..Len(spec.docs) : HasPathItemRef(spec.docs[i].value.paths)
    /\ \A i \in 1..Len(spec.docs) :
           HasPathItemRef(spec.docs[i].value.paths) => ~is_input_file(spec, spec.docs[i].key)

(***************************************************************************)
(* run(config) (codegen/src/lib.rs): one step per statement, and two for   *)
(* write_file, which creates the file and then writes the tokens to it.    *)
(***************************************************************************)
\* the token stream of create_models: the header and one declaration for each emitted schema
ModelsTokens(m) == <<"header">> \o [i \in 1..Len(m.emitted) |-> m.emitted[i].key.name]

\* the token stream of create_client: the header and one function for each operation kept
OperationsTokens(c) == <<"header">> \o [i \in 1..Len(c.functions) |-> c.functions[i].path]

\* create_mod(api_version)
create_mod(version) == <<"API_VERSION", version>>

\* the tokens run hands to write_file for a unit
TokensOf(unit) ==
    IF unit = "models" THEN ModelsTokens(models)
    ELSE IF unit = "operations" THEN OperationsTokens(client)
    ELSE create_mod(api_version[1])

\* run with the module unit written right after the models unit
run_next_mod_early(st, version) ==
    CASE st = "create_dir" -> "new"
      [] st = "new" -> "create_models"
      [] st = "create_models" -> "write_models"
      [] st = "write_models" -> "write_all_models"
      [] st = "write_all_models" -> IF version # None THEN "write_mod" ELSE "create_operations"
      [] st = "write_mod" -> "write_all_mod"
      [] st = "write_all_mod" -> "create_operations"
      [] st = "create_operations" -> "write_operations"
      [] st = "write_operations" -> "write_all_operations"
      [] OTHER -> "done"

\* run with the operations unit created before the operations are generated
run_next_create_early(st, version) ==
    CASE st = "create_dir" -> "new"
      [] st = "new" -> "create_models"
      [] st = "create_models" -> "write_models"
      [] st = "write_models" -> "write_all_models"
      [] st = "write_all_models" -> "write_operations"
      [] st = "write_operations" -> "create_operations"
      [] st = "create_operations" -> "write_all_operations"
      [] st = "write_all_operations" -> IF version # None THEN "write_mod" ELSE "done"
      [] st = "write_mod" -> "write_all_mod"
      [] OTHER -> "done"

\* run, the statement that follows a statement that succeeded
run_next(st, version) ==
    CASE st = "create_dir" -> "new"
      [] st = "new" -> "create_models"
      [] st = "create_models" -> "write_models"
      [] st = "write_models" -> "write_all_models"
      [] st = "write_all_models" -> "create_operations"
      [] st = "create_operations" -> "write_operations"
      [] st = "write_operations" -> "write_all_operations"
      [] st = "write_all_operations" -> IF version # None THEN "write_mod" ELSE "done"
      [] st = "write_mod" -> "write_all_mod"
      [] OTHER -> "done"

\* the unit a write_file step of run works on
UnitOf(st) ==
    IF st \in {"write_models", "write_all_models"} THEN "models"
    ELSE IF st \in {"write_operations", "write_all_operations"} THEN "operations"
    ELSE "mod"

Versions == {None, Some("v")}

RunInit ==
    /\ disk \in Disks
    /\ input_files \in InputLists
    /\ api_version \in Versions
    /\ spec = EmptySpec
    /\ gpc = "new"
    /\ load_err = ""
    /\ resolved = NoCall
    /\ models = NoModels
    /\ client = NoClient
    /\ out = NoFiles
    /\ stage = "create_dir"
    /\ run_err = ""
    /\ log = <<>>
    /\ PathIdle /\ RefIdle /\ IdentIdle
    /\ FnIdle /\ NameIdle /\ HashIdle /\ CrateIdle /\ ReachIdle /\ TplIdle /\ DeclIdle

\* a statement of run succeeded, or failed with err
Proceed(ok, err) ==
    /\ stage' = IF ok THEN run_next(stage, api_version) ELSE "failed"
    /\ run_err' = IF ok THEN "" ELSE err
    /\ log' = Append(log, stage)

runRest == <<pathVars, refVars, identVars, fnVars, nameVars, hashVars, crateVars, lateVars>>

\* fs::create_dir_all(directory)
CreateOutputDirectory ==
    /\ stage = "create_dir"
    /\ \E ok \in BOOLEAN : Proceed(ok, "CreateOutputDirectoryError")
    /\ UNCHANGED <<graphVars, api_version, out, runRest>>

\* CodeGen::new(config)
CodeGenNew ==
    /\ stage = "new"
    /\ LET Read(r) ==
               /\ spec' = r.spec
               /\ gpc' = IF r.ok THEN "loaded" ELSE "failed"
               /\ load_err' = r.err
               /\ Proceed(r.ok, "CodeGenNewError")
       IN Read(read_files(disk, input_files))
    /\ UNCHANGED <<disk, input_files, resolved, models, client, api_version, out, runRest>>

\* cg.create_models()
RunCreateModels ==
    /\ stage = "create_models"
    /\ LET Created(m) ==
               /\ models' = m
               /\ Proceed(m.ok, "CreateModelsError")
       IN Created(create_models(spec))
    /\ UNCHANGED <<disk, input_files, spec, gpc, load_err, resolved, client, api_version, out, runRest>>

\* cg.create_operations()
RunCreateOperations ==
    /\ stage = "create_operations"
    /\ LET Created(c) ==
               /\ client' = c
               /\ Proceed(c.ok, "CreateOperationsError")
       IN Created(create_client(spec))
    /\ UNCHANGED <<disk, input_files, spec, gpc, load_err, resolved, models, api_version, out, runRest>>

\* write_file: File::create(&file) makes the file, or empties the one that is there
FileCreate ==
    /\ stage \in {"write_models", "write_operations", "write_mod"}
    /\ \E ok \in BOOLEAN :
          /\ out' = IF ok THEN [out EXCEPT ![UnitOf(stage)] = Some(<<>>)] ELSE out
          /\ Proceed(ok, "CreateFileError")
    /\ UNCHANGED <<graphVars, api_version, runRest>>

\* write_file: buffer.write_all(code): all the tokens, or an error after some of them
FileWriteAll ==
    /\ stage \in {"write_all_models", "write_all_operations", "write_all_mod"}
    /\ LET Write(tokens) ==
               \E n \in 0..Len(tokens) :
                   /\ out' = [out EXCEPT ![UnitOf(stage)] = Some(SubSeq(tokens, 1, n))]
                   /\ Proceed(n = Len(tokens), "WriteFileError")
       IN Write(TokensOf(UnitOf(stage)))
    /\ UNCHANGED <<graphVars, api_version, runRest>>

RunNext ==
    \/ CreateOutputDirectory
    \/ CodeGenNew
    \/ RunCreateModels
    \/ RunCreateOperations
    \/ FileCreate
    \/ FileWriteAll

SpecRun == RunInit /\ [][RunNext]_vars

(***************************************************************************)
(* Claims about run                                                        *)
(***************************************************************************)
IsPrefix(s, t) == Len(s) <= Len(t) /\ \A i \in 1..Len(s) : s[i] = t[i]

\* the statements of run in the order the claim gives them
RunOrder ==
    <<"create_dir", "new", "create_models", "write_models", "write_all_models",
      "create_operations", "write_operations", "write_all_operations",
      "write_mod", "write_all_mod">>

Complete(unit) == out[unit] = Some(TokensOf(unit))

\* C13: run takes its steps in one fixed order: the output directory, the
\* documents, the models, the models unit, the operations, the operations
\* unit; the module unit comes last and only when api_version is set, so
\* whenever a module unit exists the models and operations units were written
\* in full before it.
C13_StageOrder ==
    /\ IsPrefix(log, RunOrder)
    /\ stage \notin {"done", "failed"} => Len(log) < Len(RunOrder) /\ stage = RunOrder[Len(log) + 1]
    /\ out.mod # None => api_version # None /\ Complete("models") /\ Complete("operations")
    /\ stage = "done" =>
          /\ Complete("models") /\ Complete("operations")
          /\ api_version # None <=> out.mod # None

\* run returned Ok with all three units written
C13_Witness ==
    /\ stage = "done"
    /\ out.mod = Some(create_mod("v"))
    /\ Len(out.models[1]) > 1
    /\ Len(out.operations[1]) > 1

\* C14: at every moment of a run, also after a failure, each unit of the
\* output folder is absent or holds the complete token stream generated for
\* it; none is ever empty or cut short.
C14_AsClaimed ==
    \A unit \in {"models", "operations", "mod"} :
        out[unit] # None =>
            /\ unit = "mod" => api_version # None
            /\ unit = "models" => models.ok
            /\ unit = "operations" => client.ok
            /\ out[unit] = Some(TokensOf(unit))

\* some operation of a loaded document has a parameter $ref that
\* resolve_parameter_ref does not find
UnresolvedParameter ==
    \E i \in 1..Len(spec.docs) :
        \E k \in 1..Len(spec.docs[i].value.paths) :
            /\ ~IsReference(spec.docs[i].value.paths[k].value)
            /\ \E op \in SetOf(path_item_operations(spec.docs[i].value.paths[k].value.item[1])) :
                  \E param \in SetOf(op.parameters) :
                      /\ IsReference(param)
                      /\ ~resolve_parameter_ref(spec, spec.docs[i].key, param.reference[1]).ok

\* C15: a parameter reference of an operation that the index does not hold is
\* fatal for the operations stage: create_client returns the error and no
\* operations unit is written; the operation is never left out of an output
\* that otherwise succeeds.
C15_AsClaimed ==
    client.called /\ UnresolvedParameter =>
        /\ ~client.ok
        /\ out.operations = None
        /\ stage = "failed"

(***************************************************************************)
(* One generated operation function: create_function_params and the        *)
(* request builder of create_function (src/codegen.rs), and a call of the  *)
(* code they generate.                                                     *)
(***************************************************************************)
\* create_function_params: the parameter names that are skipped
skip(version) == IF version # None THEN {"api-version"} ELSE {}

\* create_function_params: configuration first, then the parameters not skipped
function_params(version, parameters) ==
    LET Kept(name) == name \notin skip(version)
    IN <<"configuration">> \o SelectSeq(parameters, Kept)

\* create_function: the statement added to the request builder for a fixed
\* API version, `if let Some(token) = &configuration.bearer_access_token
\* { req_builder = req_builder.query(&[("api-version", ..)]) }`
ts_request_builder(version) == IF version # None THEN "if_token" ELSE "never"

\* create_function: the generated function
generated_function(version, parameters) ==
    [params |-> function_params(version, parameters),
     api_version_query |-> ts_request_builder(version)]

\* the request the generated function builds when called with a configuration
generated_request(func, configuration) ==
    [query |-> IF func.api_version_query = "if_token" /\ configuration.bearer_access_token # None
               THEN <<<<"api-version", configuration.api_version>>>>
               ELSE <<>>,
     bearer_auth |-> configuration.bearer_access_token]

ParamNames == {"api-version", "id", "body"}

MaxParams == 3

Tokens == {None, Some("t")}

FnInit ==
    /\ fn_api_version \in Versions
    /\ fn_parameters \in SeqsUpTo(ParamNames, MaxParams)
    /\ fn_token \in Tokens
    /\ fn_func = NoFunction
    /\ fn_req = NoRequest
    /\ fpc = "start"
    /\ PathIdle /\ RefIdle /\ IdentIdle /\ GraphIdle
    /\ RunIdle /\ NameIdle /\ HashIdle /\ CrateIdle /\ ReachIdle /\ TplIdle /\ DeclIdle

fnRest == <<pathVars, refVars, identVars, graphVars, runVars, nameVars, hashVars, crateVars, lateVars>>

\* create_function generates the function
GenerateFunction ==
    /\ fpc = "start"
    /\ fn_func' = generated_function(fn_api_version, fn_parameters)
    /\ fpc' = "generated"
    /\ UNCHANGED <<fn_api_version, fn_parameters, fn_token, fn_req, fnRest>>

\* the generated function is called; a package without a fixed version has
\* no api_version in its configuration
CallFunction ==
    /\ fpc = "generated"
    /\ fn_req' = generated_request(fn_func,
                     [bearer_access_token |-> fn_token,
                      api_version |-> IF fn_api_version = None THEN "" ELSE fn_api_version[1]])
    /\ fpc' = "called"
    /\ UNCHANGED <<fn_api_version, fn_parameters, fn_func, fn_token, fnRest>>

FnNext == GenerateFunction \/ CallFunction

SpecFunction == FnInit /\ [][FnNext]_vars

\* C16: with a fixed API version a generated function has no api-version
\* parameter, its request carries the configured API version as the
\* api-version query entry whether or not a bearer token is configured, and
\* the bearer token is attached exactly when there is one.
C16_AsClaimed ==
    fpc = "called" /\ fn_api_version # None =>
        /\ \A i \in 1..Len(fn_func.params) : fn_func.params[i] # "api-version"
        /\ fn_req.query = <<<<"api-version", fn_api_version[1]>>>>
        /\ fn_req.bearer_auth = fn_token

(***************************************************************************)
(* Function names: OperationVerb::function_name,                           *)
(* function_name_from_operation_id and create_function_name                *)
(* (codegen/src/spec.rs), with heck's to_snake_case                        *)
(***************************************************************************)
IsUppercase(ch) == \E i \in 1..Len(UpperSeq) : UpperSeq[i] = ch

IsLowercase(ch) == \E i \in 1..Len(LowerSeq) : LowerSeq[i] = ch

ToLowercase(ch) ==
    IF IsUppercase(ch) THEN LowerSeq[CHOOSE i \in 1..Len(UpperSeq) : UpperSeq[i] = ch] ELSE ch

ToUppercase(ch) ==
    IF IsLowercase(ch) THEN UpperSeq[CHOOSE i \in 1..Len(LowerSeq) : LowerSeq[i] = ch] ELSE ch

NonEmpty(s) == s # <<>>

\* heck: the words of a text without separators, cut after a lower case
\* character that an upper case one follows and before the last of a run of
\* upper case characters that a lower case one follows
RECURSIVE CaseWords(_, _, _, _)
CaseWords(w, i, init, mode) ==
    IF i > Len(w) THEN <<>>
    ELSE IF i = Len(w) THEN <<SubSeq(w, init, Len(w))>>
    ELSE LET next_mode == IF IsLowercase(w[i]) THEN "lowercase"
                          ELSE IF IsUppercase(w[i]) THEN "uppercase" ELSE mode
         IN IF next_mode = "lowercase" /\ IsUppercase(w[i + 1])
            THEN <<SubSeq(w, init, i)>> \o CaseWords(w, i + 1, i + 1, "boundary")
            ELSE IF mode = "uppercase" /\ IsUppercase(w[i]) /\ IsLowercase(w[i + 1])
            THEN <<SubSeq(w, init, i - 1)>> \o CaseWords(w, i + 1, i, "boundary")
            ELSE CaseWords(w, i + 1, init, next_mode)

\* heck::SnakeCase::to_snake_case: the words between the characters that are
\* not alphanumeric, cut by case, in lower case and joined by "_"
to_snake_case(s) ==
    LET Words(parts) == Flatten([i \in 1..Len(parts) |-> CaseWords(parts[i], 1, 1, "boundary")])
        Lower(words) == [i \in 1..Len(words) |-> [j \in 1..Len(words[i]) |-> ToLowercase(words[i][j])]]
    IN JoinWith(Lower(Words(SelectSeq(SplitOn(s, "_"), NonEmpty))), "_")

\* heck::CamelCase::to_camel_case: the same words, each with its first
\* character in upper case and the others in lower case, joined without a separator
to_camel_case(s) ==
    LET Words(parts) == Flatten([i \in 1..Len(parts) |-> CaseWords(parts[i], 1, 1, "boundary")])
        Capital(word) == [j \in 1..Len(word) |->
                             IF j = 1 THEN ToUppercase(word[j]) ELSE ToLowercase(word[j])]
        Capitals(words) == [i \in 1..Len(words) |-> Capital(words[i])]
    IN Flatten(Capitals(Words(SelectSeq(SplitOn(s, "_"), NonEmpty))))

\* str::splitn(2, '_')
SplitN2(s) ==
    IF \E i \in 1..Len(s) : s[i] = "_"
    THEN LET i == CHOOSE k \in 1..Len(s) : s[k] = "_" /\ \A j \in 1..(k - 1) : s[j] # "_"
         IN <<SubSeq(s, 1, i - 1), SubSeq(s, i + 1, Len(s))>>
    ELSE <<s>>

\* str::rsplitn(2, '_'), put back in reading order
RSplitN2(s) ==
    IF \E i \in 1..Len(s) : s[i] = "_"
    THEN LET i == CHOOSE k \in 1..Len(s) : s[k] = "_" /\ \A j \in (k + 1)..Len(s) : s[j] # "_"
         IN <<SubSeq(s, 1, i - 1), SubSeq(s, i + 1, Len(s))>>
    ELSE <<s>>

\* function_name_from_operation_id that splits at the last underscore
function_name_from_operation_id_last(id) ==
    LET Named(parts) ==
            IF Len(parts) = 2
            THEN <<Some(to_snake_case(parts[1])), to_snake_case(parts[2])>>
            ELSE <<None, to_snake_case(parts[1])>>
    IN Named(RSplitN2(id))

\* function_name_from_operation_id
function_name_from_operation_id(id) ==
    LET Named(parts) ==
            IF Len(parts) = 2
            THEN <<Some(to_snake_case(parts[1])), to_snake_case(parts[2])>>
            ELSE <<None, to_snake_case(parts[1])>>
    IN Named(SplitN2(id))

\* create_function_name
create_function_name(path, verb) ==
    JoinWith(Append(SelectSeq(SplitOn(path, "/"), NonEmpty), verb), "_")

\* OperationVerb::function_name
function_name(id, path, verb) ==
    IF id # None THEN function_name_from_operation_id(id[1])
    ELSE <<None, create_function_name(path, verb)>>

MaxIdLen == 5

MaxPathLen == 3

IdChars == {"A", "b", "_"}

PathChars == {"p", "/"}

VerbNames == {<<"g", "e", "t">>, <<"p", "u", "t">>}

NameInit ==
    /\ op_id \in {None} \cup {Some(s) : s \in SeqsUpTo(IdChars, MaxIdLen)}
    /\ op_path \in SeqsUpTo(PathChars, MaxPathLen)
    /\ verb_name \in VerbNames
    /\ fname = <<None, <<>>>>
    /\ npc = "start"
    /\ PathIdle /\ RefIdle /\ IdentIdle /\ GraphIdle
    /\ RunIdle /\ FnIdle /\ HashIdle /\ CrateIdle /\ ReachIdle /\ TplIdle /\ DeclIdle

FunctionName ==
    /\ npc = "start"
    /\ fname' = function_name(op_id, op_path, verb_name)
    /\ npc' = "done"
    /\ UNCHANGED <<op_id, op_path, verb_name, pathVars, refVars, identVars, graphVars, lateVars,
                   runVars, fnVars, hashVars, crateVars>>

NameNext == FunctionName

SpecName == NameInit /\ [][NameNext]_vars

\* the first "_" of a text, 0 if it has none
FirstUnderscore(s) ==
    IF \E i \in 1..Len(s) : s[i] = "_"
    THEN CHOOSE i \in 1..Len(s) : s[i] = "_" /\ \A j \in 1..(i - 1) : s[j] # "_"
    ELSE 0

\* the number of "/"-separated segments of a path that are not empty
RECURSIVE SegmentCount(_)
SegmentCount(p) ==
    IF p = <<>> THEN 0
    ELSE (IF Head(p) # "/" /\ (Len(p) = 1 \/ p[2] = "/") THEN 1 ELSE 0) + SegmentCount(Tail(p))

\* a text without its "/" characters
NoSlashes(p) == SelectSeq(p, LAMBDA ch : ch # "/")

\* C17: the function name of an operation.  With an operationId that has an
\* underscore: the module is the text before the first underscore and the
\* function all the text after it, further underscores included, each
\* snake-cased.  With an operationId without underscore: no module, the
\* function is the snake-cased id.  Without operationId: no module, the
\* function is the non-empty segments of the path and then the verb, joined
\* by "_" ("/p" and get give "p_get").
C17_FunctionName ==
    npc = "done" =>
        IF op_id = None
        THEN /\ fname[1] = None
             /\ Len(SplitOn(fname[2], "_")) = SegmentCount(op_path) + 1
             /\ Last(SplitOn(fname[2], "_")) = verb_name
             /\ NoSlashes(op_path) \o verb_name = SelectSeq(fname[2], LAMBDA ch : ch # "_")
             /\ (op_path = <<"/", "p">> /\ verb_name = <<"g", "e", "t">>
                    => fname[2] = <<"p", "_", "g", "e", "t">>)
        ELSE IF FirstUnderscore(op_id[1]) = 0
        THEN fname = <<None, to_snake_case(op_id[1])>>
        ELSE /\ fname[1] = Some(to_snake_case(SubSeq(op_id[1], 1, FirstUnderscore(op_id[1]) - 1)))
             /\ fname[2] = to_snake_case(SubSeq(op_id[1], FirstUnderscore(op_id[1]) + 1, Len(op_id[1])))

\* "A_b_A" gives the module "a" and the function "b_a": the second
\* underscore stays in the function part
C17_Witness ==
    /\ npc = "done"
    /\ op_id = Some(<<"A", "_", "b", "_", "A">>)
    /\ fname = <<Some(<<"a">>), <<"b", "_", "a">>>>

(***************************************************************************)
(* The hash sets of the generators: `required` of create_struct and `skip` *)
(* of create_function_params (src/codegen.rs).  A HashSet iterates in an   *)
(* order that differs from run to run; it is kept here as the sequence of  *)
(* its elements in that order.                                             *)
(***************************************************************************)
\* Iterator::collect::<HashSet<_>>(): the distinct elements, in the order of the run
HashSetOf(elements, order) ==
    LET Member(x) == \E i \in 1..Len(elements) : elements[i] = x
    IN SelectSeq(order, Member)

\* HashSet::contains
HashSetContains(set, x) == \E i \in 1..Len(set) : set[i] = x

\* create_struct with the fields of the required set emitted first, in the
\* order the set iterates, and the other properties after them
struct_fields_required_first(properties, required, order) ==
    LET Fields(set) ==
            [i \in 1..Len(set) |-> [name |-> set[i], is_required |-> TRUE]]
            \o [i \in 1..Len(SelectSeq(properties, LAMBDA x : ~HashSetContains(set, x))) |->
                   [name |-> SelectSeq(properties, LAMBDA x : ~HashSetContains(set, x))[i],
                    is_required |-> FALSE]]
    IN Fields(SelectSeq(HashSetOf(required, order),
                        LAMBDA x : \E i \in 1..Len(properties) : properties[i] = x))

\* create_struct: one field for each property, in the order of the
\* properties map, Option-wrapped unless the required set contains its name
struct_fields(properties, required, order) ==
    LET Fields(set) ==
            [i \in 1..Len(properties) |->
                [name |-> properties[i], is_required |-> HashSetContains(set, properties[i])]]
    IN Fields(HashSetOf(required, order))

\* create_function_params with skip as a HashSet
skipped_params(version, parameters, order) ==
    LET Params(set) ==
            <<"configuration">> \o SelectSeq(parameters, LAMBDA x : ~HashSetContains(set, x))
    IN Params(HashSetOf(IF version # None THEN <<"api-version">> ELSE <<>>, order))

PropNames == {"a", "b", "api-version"}

MaxProps == 3

MaxRequired == 2

\* the orders a hash set over PropNames may iterate in
Orders == {s \in [1..Cardinality(PropNames) -> PropNames] : \A i, j \in DOMAIN s : s[i] = s[j] => i = j}

\* the key sequences of a map: no name twice
KeySeqs == {s \in SeqsUpTo(PropNames, MaxProps) : \A i, j \in DOMAIN s : s[i] = s[j] => i = j}

HashInit ==
    /\ st_properties \in KeySeqs
    /\ st_required \in SeqsUpTo(PropNames, MaxRequired)
    /\ st_parameters \in {<<>>, <<"api-version", "a">>}
    /\ st_api_version \in Versions
    /\ hash_order \in Orders \X Orders
    /\ st_out = <<None, None>>
    /\ hpc = "start"
    /\ PathIdle /\ RefIdle /\ IdentIdle /\ GraphIdle
    /\ RunIdle /\ FnIdle /\ NameIdle /\ CrateIdle /\ ReachIdle /\ TplIdle /\ DeclIdle

\* what a run with the hash order `order` emits for the schema and the operation
Emitted(order) ==
    [fields |-> struct_fields(st_properties, st_required, order),
     params |-> skipped_params(st_api_version, st_parameters, order)]

hashRest == <<pathVars, refVars, identVars, graphVars, runVars, fnVars, nameVars, crateVars, lateVars>>

\* the first run of the generator
GenerateOnce ==
    /\ hpc = "start"
    /\ st_out' = <<Some(Emitted(hash_order[1])), None>>
    /\ hpc' = "one"
    /\ UNCHANGED <<st_properties, st_required, st_parameters, st_api_version, hash_order, hashRest>>

\* the second run, over the same Config and documents
GenerateAgain ==
    /\ hpc = "one"
    /\ st_out' = <<st_out[1], Some(Emitted(hash_order[2]))>>
    /\ hpc' = "both"
    /\ UNCHANGED <<st_properties, st_required, st_parameters, st_api_version, hash_order, hashRest>>

HashNext == GenerateOnce \/ GenerateAgain

SpecHash == HashInit /\ [][HashNext]_vars

\* C18: determinism.  Two runs over the same Config and documents emit the
\* same declarations in the same order, whatever order the hash sets of each
\* run (required, skip) iterate in.
C18_Deterministic == hpc = "both" => st_out[1] = st_out[2]

\* two runs whose hash sets iterate in different orders over a schema with a
\* required and an optional property each, and an operation with a skipped parameter
C18_Witness ==
    /\ hpc = "both"
    /\ hash_order[1] # hash_order[2]
    /\ HashSetOf(st_required, hash_order[1]) # HashSetOf(st_required, hash_order[2])
    /\ \E i, j \in 1..Len(st_out[2][1].fields) :
          st_out[2][1].fields[i].is_required /\ ~st_out[2][1].fields[j].is_required
    /\ Len(st_out[2][1].params) = 2

(***************************************************************************)
(* gen_crate (codegen/examples/gen_mgmt.rs): the loop over the packages of *)
(* one configuration document and the manifest and lib.rs written after it *)
(***************************************************************************)
\* config_parser::to_api_version: the version in the tag, None if it has none
to_api_version(tag) ==
    LET Version(digits) == IF digits = <<>> THEN None ELSE Some(digits)
    IN Version(SelectSeq(tag, LAMBDA ch : ch \in Digits))

\* config_parser::to_mod_name: the tag in its sanitized snake form
to_mod_name(tag) == ReplaceChar(tag, "-", "_")

\* the tags of SKIP_SERVICE_TAGS for the spec folder of the crate
SkipServiceTags == {<<"s", "-", "2">>}

\* the tags a configuration document may hold: two that differ and give the
\* same module name, one without a version and one that is skipped
Tags == {<<"p", "-", "1">>, <<"p", "_", "1">>, <<"p">>, <<"s", "-", "2">>}

MaxPackages == 3

CrateInit ==
    /\ packages \in SeqsUpTo(Tags, MaxPackages)
    /\ package_i = 1
    /\ feature_mod_names = <<>>
    /\ mod_runs = <<>>
    /\ crate_files = None
    /\ cpc = "loop"
    /\ PathIdle /\ RefIdle /\ IdentIdle /\ GraphIdle
    /\ RunIdle /\ FnIdle /\ NameIdle /\ HashIdle /\ ReachIdle /\ TplIdle /\ DeclIdle

crateRest == <<pathVars, refVars, identVars, graphVars, runVars, fnVars, nameVars, hashVars, lateVars>>

\* one iteration of `for package in packages`: a package without version or
\* with a skipped tag is passed over; for any other the pair is pushed and
\* autorust_codegen::run is called on the module folder
GenCratePackage ==
    /\ cpc = "loop"
    /\ package_i <= Len(packages)
    /\ LET tag == packages[package_i]
       IN IF to_api_version(tag) = None \/ tag \in SkipServiceTags
          THEN /\ package_i' = package_i + 1
               /\ UNCHANGED <<feature_mod_names, mod_runs, cpc>>
          ELSE /\ feature_mod_names' = Append(feature_mod_names, <<tag, to_mod_name(tag)>>)
               /\ mod_runs' = Append(mod_runs, to_mod_name(tag))
               /\ \E ok \in BOOLEAN :
                     /\ cpc' = IF ok THEN "loop" ELSE "failed"
                     /\ package_i' = IF ok THEN package_i + 1 ELSE package_i
    /\ UNCHANGED <<packages, crate_files, crateRest>>

\* after the loop: nothing is written for an empty list, else
\* cargo_toml::create and lib_rs::create get the list
GenCrateWrite ==
    /\ cpc = "loop"
    /\ package_i > Len(packages)
    /\ IF Len(feature_mod_names) = 0
       THEN cpc' = "done" /\ UNCHANGED crate_files
       ELSE \E ok \in BOOLEAN :
               /\ cpc' = IF ok THEN "done" ELSE "failed"
               /\ crate_files' =
                     IF ok THEN Some([features |-> [i \in 1..Len(feature_mod_names) |-> feature_mod_names[i][1]],
                                      mods |-> [i \in 1..Len(feature_mod_names) |-> feature_mod_names[i][2]]])
                     ELSE None
    /\ UNCHANGED <<packages, package_i, feature_mod_names, mod_runs, crateRest>>

CrateNext == GenCratePackage \/ GenCrateWrite

SpecCrate == CrateInit /\ [][CrateNext]_vars

NoDuplicates(s) == \A i, j \in 1..Len(s) : s[i] = s[j] => i = j

\* C19: within one configuration document a tag whose feature or module name
\* was already produced is skipped: the pairs handed to the manifest and lib
\* writers never hold a feature_name or a mod_name twice, and run is not
\* called twice on one module folder.
C19_AsClaimed ==
    /\ NoDuplicates([i \in 1..Len(feature_mod_names) |-> feature_mod_names[i][1]])
    /\ NoDuplicates([i \in 1..Len(feature_mod_names) |-> feature_mod_names[i][2]])
    /\ NoDuplicates(mod_runs)
    /\ crate_files # None => NoDuplicates(crate_files[1].features) /\ NoDuplicates(crate_files[1].mods)

(***************************************************************************)
(* Claims about the reference walker                                       *)
(***************************************************************************)
RECURSIVE Sum(_)
Sum(ns) == IF ns = <<>> THEN 0 ELSE Head(ns) + Sum(Tail(ns))

\* the number of $refs in a schema or reference, at any depth
RECURSIVE SchemaRefCount(_)
SchemaRefCount(ro) ==
    IF IsReference(ro) THEN 1
    ELSE Sum([i \in 1..Len(ro.item[1].properties) |-> SchemaRefCount(ro.item[1].properties[i].value)])
         + (IF ro.item[1].additional_properties = None THEN 0
            ELSE SchemaRefCount(ro.item[1].additional_properties[1]))
         + (IF ro.item[1].items = None THEN 0 ELSE SchemaRefCount(ro.item[1].items[1]))
         + Sum([i \in 1..Len(ro.item[1].all_of) |-> SchemaRefCount(ro.item[1].all_of[i])])

OptionRefCount(schema) == IF schema = None THEN 0 ELSE SchemaRefCount(schema[1])

\* the number of $refs in an operation: parameters, responses, examples
OperationRefCount(op) ==
    Sum([i \in 1..Len(op.parameters) |->
            IF IsReference(op.parameters[i]) THEN 1
            ELSE OptionRefCount(op.parameters[i].item[1].schema)])
    + Sum([i \in 1..Len(op.responses) |-> OptionRefCount(op.responses[i].value.schema)])
    + Sum([i \in 1..Len(op.x_ms_examples) |-> IF IsReference(op.x_ms_examples[i].value) THEN 1 ELSE 0])

\* the number of $refs in a document: its paths, definitions and parameters
DocumentRefCount(api) ==
    Sum([i \in 1..Len(api.paths) |->
            IF IsReference(api.paths[i].value) THEN 1
            ELSE Sum([j \in 1..Len(api.paths[i].value.item[1].operations) |->
                         OperationRefCount(api.paths[i].value.item[1].operations[j])])])
    + Sum([i \in 1..Len(api.definitions) |-> SchemaRefCount(api.definitions[i].value)])
    + Sum([i \in 1..Len(api.parameters) |-> OptionRefCount(api.parameters[i].value.schema)])

\* the role the pointer of a reference stands for
RoleOfPointer(tr) ==
    IF tr.reference.path = <<"paths">> THEN "PathItem"
    ELSE IF tr.reference.path = <<"parameters">> THEN "Parameter"
    ELSE IF tr.reference.path = <<"definitions">> THEN "Schema"
    ELSE "Example"

\* C20: get_refs(doc) emits every $ref of the document once, each with the
\* role of its position (PathItem, Parameter, Schema, Example): as many
\* references as the document has $refs, none missing and none twice.
C20_AsClaimed ==
    gpc = "loaded" =>
        \A i \in 1..Len(spec.docs) :
            /\ Len(get_refs(spec.docs[i].value)) = DocumentRefCount(spec.docs[i].value)
            /\ \A k \in 1..Len(get_refs(spec.docs[i].value)) :
                  get_refs(spec.docs[i].value)[k].role = RoleOfPointer(get_refs(spec.docs[i].value)[k])

(***************************************************************************)
(* C21: schemas of different files that share a name                       *)
(***************************************************************************)
\* the positions of all_schemas that hold the first schema of their name
FirstOfName(all_schemas) ==
    { i \in 1..Len(all_schemas) :
        \A j \in 1..(i - 1) : all_schemas[j].key.name # all_schemas[i].key.name }

\* two collected schemas of different files share a name
SharedName(all_schemas) ==
    \E i, j \in 1..Len(all_schemas) :
        /\ all_schemas[i].key.name = all_schemas[j].key.name
        /\ all_schemas[i].key.file # all_schemas[j].key.file

\* C21: when create_models succeeds, every name among the collected schemas
\* is emitted exactly once, for the first collected schema of that name, and
\* the emitted types keep the order of collection: the definitions of the
\* input files first, then the referenced schemas in the order of discovery.
C21_FirstWins ==
    (models.called /\ models.ok) =>
        LET first == FirstOfName(models.all_schemas)
        IN /\ Len(models.emitted) = Cardinality(first)
           /\ \A i \in 1..Len(models.all_schemas) :
                 Cardinality({ j \in 1..Len(models.emitted) :
                     models.emitted[j].key.name = models.all_schemas[i].key.name }) = 1
           /\ \A j \in 1..Len(models.emitted) :
                 \E i \in first : models.all_schemas[i].key = models.emitted[j].key
           /\ \A j, k \in 1..Len(models.emitted) :
                 j < k => \E i, l \in first :
                     /\ i < l
                     /\ models.all_schemas[i].key = models.emitted[j].key
                     /\ models.all_schemas[l].key = models.emitted[k].key
           /\ \A i, j \in 1..Len(models.all_schemas) :
                 (is_input_file(spec, models.all_schemas[j].key.file)
                  /\ ~is_input_file(spec, models.all_schemas[i].key.file)) => j < i

\* create_models succeeded on schemas of two files that share a name
C21_Witness ==
    /\ models.called /\ models.ok
    /\ SharedName(models.all_schemas)
    /\ Len(models.emitted) < Len(models.all_schemas)

(***************************************************************************)
(* C22: what a failed run leaves behind                                    *)
(***************************************************************************)
InLog(st) == \E i \in 1..Len(log) : log[i] = st

\* the statement of run that returned the error
FailedAt(st) == stage = "failed" /\ log # <<>> /\ log[Len(log)] = st

\* write_file returned Ok for the unit
Written(unit) ==
    \E st \in {"write_all_models", "write_all_operations", "write_all_mod"} :
        /\ UnitOf(st) = unit
        /\ InLog(st)
        /\ ~FailedAt(st)

\* write_file was called for the unit
Started(unit) ==
    \E st \in {"write_models", "write_operations", "write_mod"} :
        UnitOf(st) = unit /\ InLog(st)

\* C22: a unit that write_file has written in full keeps its content for the
\* rest of the run, whatever fails later, and a unit whose write_file call
\* was never reached does not exist. So a failure while creating the
\* directory, loading the documents or generating the models leaves no unit,
\* and a failure while generating the operations leaves the models unit in
\* full and neither the operations unit nor the module unit.
C22_Frame ==
    /\ \A unit \in {"models", "operations", "mod"} :
          /\ Written(unit) => Complete(unit)
          /\ ~Started(unit) => out[unit] = None
    /\ (FailedAt("create_dir") \/ FailedAt("new") \/ FailedAt("create_models")) => out = NoFiles
    /\ FailedAt("create_operations") =>
          /\ Complete("models")
          /\ out.operations = None
          /\ out.mod = None

\* create_operations failed after a models unit with declarations was written
C22_Witness ==
    /\ FailedAt("create_operations")
    /\ out.models # None
    /\ Len(out.models[1]) > 1

(***************************************************************************)
(* The walk of add_schema_refs, one call at a time: the second loop of     *)
(* create_models calls add_schema_refs for each schema reference of each   *)
(* input file, and add_schema_refs calls itself for the references of a    *)
(* schema it has just inserted.                                            *)
(***************************************************************************)
\* a call in progress: the file its references are resolved against, the
\* references it has still to go through, and the key it inserted (None for
\* the loop of create_models over an input file)
Frame(doc_file, refs, key) == [doc_file |-> doc_file, refs |-> refs, key |-> key]

\* the deepest nesting of calls the walk is followed to
MaxDepth == 8

\* add_schema_refs without the contains_key test
should_add_unchecked(sp, schemas, ref_key) == ~is_input_file(sp, ref_key.file)

\* add_schema_refs: the test that guards the insertion and the recursion
should_add(sp, schemas, ref_key) ==
    /\ ~ContainsKey(schemas, ref_key)
    /\ ~is_input_file(sp, ref_key.file)

\* the frames of the loop over the input files, in document order
InputFrames(sp) ==
    LET inputs == SelectSeq(sp.docs, LAMBDA d : is_input_file(sp, d.key))
    IN [i \in 1..Len(inputs) |->
           Frame(inputs[i].key, get_api_schema_refs(inputs[i].value), None)]

ReachInit ==
    /\ disk \in Disks
    /\ input_files \in InputLists
    /\ spec = EmptySpec
    /\ gpc = "new"
    /\ load_err = ""
    /\ resolved = NoCall
    /\ models = NoModels
    /\ client = NoClient
    /\ rs_schemas = <<>>
    /\ rs_stack = <<>>
    /\ rs_visits = <<>>
    /\ rs_cycles = {}
    /\ rs_err = ""
    /\ rs_pc = "start"
    /\ PathIdle /\ RefIdle /\ IdentIdle
    /\ RunIdle /\ FnIdle /\ NameIdle /\ HashIdle /\ CrateIdle /\ TplIdle /\ DeclIdle

reachRest ==
    <<pathVars, refVars, identVars, graphVars, runVars, fnVars, nameVars, hashVars, crateVars,
      tplVars, declVars>>

\* create_models, first loop, and the start of the second
ReachStart ==
    /\ gpc = "loaded"
    /\ rs_pc = "start"
    /\ LET Defined(definitions) ==
               /\ rs_schemas' = definitions.schemas
               /\ rs_err' = definitions.err
               /\ rs_stack' = IF definitions.ok THEN InputFrames(spec) ELSE <<>>
               /\ rs_pc' = IF definitions.ok THEN "walk" ELSE "failed"
       IN Defined(CollectDefinitions(spec, <<>>, spec.docs))
    /\ UNCHANGED <<rs_visits, rs_cycles, reachRest>>

\* one call of add_schema_refs, for the next reference of the innermost loop:
\* what it leaves behind
add_schema_refs_call(sp, schemas, stack, visits, cycles) ==
    LET Advanced(top) == <<[top EXCEPT !.refs = Tail(top.refs)]>> \o Tail(stack)
        Resolved(schema) ==
            IF ~schema.ok
            THEN [pc |-> "failed", err |-> schema.err, schemas |-> schemas, stack |-> stack,
                  visits |-> visits, cycles |-> cycles]
            ELSE IF should_add(sp, schemas, schema.ref_key[1])
            THEN [pc |-> "walk", err |-> "",
                  schemas |-> Insert(schemas, schema.ref_key[1],
                                     [ref_key |-> schema.ref_key, schema |-> schema.value[1]]),
                  stack |-> <<Frame(schema.ref_key[1].file,
                                    get_schema_schema_refs(schema.value[1]),
                                    schema.ref_key)>> \o Advanced(Head(stack)),
                  visits |-> Append(visits, schema.ref_key[1]),
                  cycles |-> cycles]
            ELSE [pc |-> "walk", err |-> "", schemas |-> schemas,
                  stack |-> Advanced(Head(stack)),
                  visits |-> visits,
                  cycles |-> IF \E i \in 1..Len(stack) : stack[i].key = schema.ref_key
                             THEN cycles \cup {[key |-> schema.ref_key[1],
                                                from |-> Head(stack).doc_file]}
                             ELSE cycles]
    IN Resolved(resolve_schema_ref(sp, Head(stack).doc_file, Head(Head(stack).refs)))

ReachCall ==
    /\ rs_pc = "walk"
    /\ rs_stack # <<>>
    /\ Head(rs_stack).refs # <<>>
    /\ \E r \in {add_schema_refs_call(spec, rs_schemas, rs_stack, rs_visits, rs_cycles)} :
          /\ Len(r.stack) <= MaxDepth
          /\ rs_pc' = r.pc
          /\ rs_err' = r.err
          /\ rs_schemas' = r.schemas
          /\ rs_stack' = r.stack
          /\ rs_visits' = r.visits
          /\ rs_cycles' = r.cycles
    /\ UNCHANGED reachRest

\* the innermost loop has gone through its references: the call returns Ok
ReachReturn ==
    /\ rs_pc = "walk"
    /\ rs_stack # <<>>
    /\ Head(rs_stack).refs = <<>>
    /\ rs_stack' = Tail(rs_stack)
    /\ UNCHANGED <<rs_schemas, rs_visits, rs_cycles, rs_err, rs_pc, reachRest>>

\* the loop over the input files is through
ReachDone ==
    /\ rs_pc = "walk"
    /\ rs_stack = <<>>
    /\ rs_pc' = "done"
    /\ UNCHANGED <<rs_schemas, rs_stack, rs_visits, rs_cycles, rs_err, reachRest>>

\* a step of the second loop of create_models
ReachWalk ==
    \/ ReachCall
    \/ ReachReturn
    \/ ReachDone

ReachNext ==
    \/ ReadFiles
    \/ ReachStart
    \/ ReachWalk

SpecReach == ReachInit /\ [][ReachNext]_vars

\* the next call of add_schema_refs is due
CallPending == rs_pc = "walk" /\ rs_stack # <<>> /\ Head(rs_stack).refs # <<>>

\* ReachCall can be taken exactly when a call is due
CallPendingIsEnabled == CallPending <=> ENABLED ReachCall

\* The loop is sequential code: when it can take a step, it takes it. This is
\* weak fairness of each step of the walk, with the enabling condition of
\* ReachCall written as CallPending.
SpecReachLive ==
    /\ SpecReach
    /\ WF_vars(ReachReturn \/ ReachDone)
    /\ ([]<>(~CallPending) \/ []<><<ReachCall>>_vars)

\* the walk collects what the recursive add_schema_refs collects
ReachAgrees ==
    rs_pc \in {"done", "failed"} =>
        LET Referenced(definitions) ==
                IF ~definitions.ok THEN definitions
                ELSE CollectReferenced(spec, definitions.schemas, spec.docs)
            Same(all_schemas) ==
                /\ all_schemas.ok <=> rs_pc = "done"
                /\ all_schemas.err = rs_err
                /\ all_schemas.ok => all_schemas.schemas = rs_schemas
        IN Same(Referenced(CollectDefinitions(spec, <<>>, spec.docs)))

\* no key is inserted twice, and no call is nested deeper than the walk follows
VisitedOnce ==
    /\ \A i, j \in 1..Len(rs_visits) : rs_visits[i] = rs_visits[j] => i = j
    /\ Len(rs_stack) < MaxDepth

\* C23: the computation of the reachable schemas terminates on every document
\* graph, with references of a schema to itself and cycles of references
\* within a file or across files, and it inserts each (file, name) key, and
\* walks the references of its schema, at most once.
C23_Terminates ==
    /\ []VisitedOnce
    /\ (rs_pc = "walk") ~> (rs_pc \in {"done", "failed"})

\* the walk ended after a reference of one file led back to a schema of
\* another file whose call was still in progress
C23_Witness ==
    /\ rs_pc = "done"
    /\ \E c \in rs_cycles : c.from # c.key.file /\ c.key \in {rs_visits[i] : i \in 1..Len(rs_visits)}

(***************************************************************************)
(* The declarations create_models emits (src/codegen.rs): for each schema  *)
(* a type alias, an enum, or a struct with the module of its local types.  *)
(* Names are texts here, so that the case conversions and ident act on     *)
(* them; a reference is the name it refers to.                             *)
(***************************************************************************)
StringT == <<"S", "t", "r", "i", "n", "g">>

VecT == <<"V", "e", "c">>

OptionT == <<"O", "p", "t", "i", "o", "n">>

SerdeJsonT == <<"s", "e", "r", "d", "e", "_", "j", "s", "o", "n">>

ValueT == <<"V", "a", "l", "u", "e">>

\* the identifier ident makes of a text. The names of the schemas below are
\* letters and "_" and begin with a letter: ident returns for each of them.
IdentText(text) == ident(text).text

\* a type as it is written: the containers around it, outermost first, and
\* the path of the type they hold
Type(wrap, path) == [wrap |-> wrap, path |-> path]

\* TokenStream::to_string() of a type, up to the separators, which are all
\* not alphanumeric, as "_" is
TypeText(tp) == JoinWith(tp.wrap \o tp.path, "_")

TypeOk(tp) == [ok |-> TRUE, err |-> "", tp |-> tp]

TypeErr(err) == [ok |-> FALSE, err |-> err, tp |-> Type(<<>>, <<>>)]

\* a declaration: kind is "type", "enum", "struct" or "mod"
Decl(kind, id, tp, values, fields, types) ==
    [kind |-> kind, id |-> id, tp |-> tp, values |-> values, fields |-> fields, types |-> types]

\* a field of a struct with its serde attributes
Field(flatten, rename, skip_serializing_if, id, tp) ==
    [flatten |-> flatten, rename |-> rename, skip_serializing_if |-> skip_serializing_if,
     id |-> id, tp |-> tp]

\* get_type_name_for_schema_ref and get_type_name_for_schema, the type written
RECURSIVE type_name_for_schema(_)
type_name_for_schema_ref(schema) ==
    IF schema.reference # None
    THEN TypeOk(Type(<<>>, <<IdentText(to_camel_case(schema.reference[1]))>>))
    ELSE type_name_for_schema(schema.item[1])

type_name_for_schema(schema) ==
    IF schema.type_ = Some("array")
    THEN IF schema.items = None THEN TypeErr("array expected to have items")
         ELSE LET VecOf(items) ==
                      IF ~items.ok THEN items
                      ELSE TypeOk(Type(<<VecT>> \o items.tp.wrap, items.tp.path))
              IN VecOf(type_name_for_schema_ref(schema.items[1]))
    ELSE IF schema.type_ = Some("integer") THEN TypeOk(Type(<<>>, <<<<"i", "6", "4">>>>))
    ELSE IF schema.type_ = Some("number") THEN TypeOk(Type(<<>>, <<<<"f", "6", "4">>>>))
    ELSE IF schema.type_ = Some("string") THEN TypeOk(Type(<<>>, <<StringT>>))
    ELSE IF schema.type_ = Some("boolean") THEN TypeOk(Type(<<>>, <<<<"b", "o", "o", "l">>>>))
    ELSE TypeOk(Type(<<>>, <<SerdeJsonT, ValueT>>))

\* require with the test inverted
require_inverted(is_required, tp) ==
    IF is_required THEN Type(<<OptionT>> \o tp.wrap, tp.path) ELSE tp

\* require
require(is_required, tp) ==
    IF is_required THEN tp ELSE Type(<<OptionT>> \o tp.wrap, tp.path)

\* create_enum: the path of the enum and its declaration
create_enum(namespace, property_name, property) ==
    LET id == IdentText(to_camel_case(property_name))
        Value(name) ==
            LET nm == IdentText(to_camel_case(name))
            IN [id |-> nm, rename |-> IF nm = name THEN None ELSE Some(name)]
    IN [tp_name |-> Type(<<>>, namespace \o <<id>>),
        tp |-> Decl("enum", id, Type(<<>>, <<>>),
                    [i \in 1..Len(property.schema.enum_) |-> Value(property.schema.enum_[i])],
                    <<>>, <<>>)]

\* create_vec_alias
vec_alias(alias_name, schema) ==
    IF schema.schema.items = None
    THEN [ok |-> FALSE, err |-> "array expected to have items", streams |-> <<>>]
    ELSE LET Alias(items_typ) ==
                 IF ~items_typ.ok THEN [ok |-> FALSE, err |-> items_typ.err, streams |-> <<>>]
                 ELSE [ok |-> TRUE, err |-> "",
                       streams |-> <<Decl("type", IdentText(to_camel_case(alias_name)),
                                          Type(<<VecT>> \o items_typ.tp.wrap, items_typ.tp.path),
                                          <<>>, <<>>, <<>>)>>]
         IN Alias(type_name_for_schema_ref(schema.schema.items[1]))

\* create_struct, the loop over allOf with the field named by the name of the type
flatten_field_camel(schema) ==
    LET Flattened(type_name) ==
            IF ~type_name.ok THEN [ok |-> FALSE, err |-> type_name.err, field |-> <<>>]
            ELSE [ok |-> TRUE, err |-> "",
                  field |-> Field(TRUE, None, FALSE, IdentText(TypeText(type_name.tp)),
                                  type_name.tp)]
    IN Flattened(type_name_for_schema_ref(schema))

\* create_struct, the loop over allOf: the field of one entry
flatten_field(schema) ==
    LET Flattened(type_name) ==
            IF ~type_name.ok THEN [ok |-> FALSE, err |-> type_name.err, field |-> <<>>]
            ELSE [ok |-> TRUE, err |-> "",
                  field |-> Field(TRUE, None, FALSE,
                                  IdentText(to_snake_case(TypeText(type_name.tp))),
                                  type_name.tp)]
    IN Flattened(type_name_for_schema_ref(schema))

\* the first result that is an error, <<>> if none is
FirstError(results) ==
    LET failed == {i \in 1..Len(results) : ~results[i].ok}
    IN IF failed = {} THEN <<>>
       ELSE <<results[CHOOSE i \in failed : \A j \in failed : i <= j].err>>

\* create_struct and create_struct_field_type
RECURSIVE struct_streams(_, _)
struct_field_type(namespace, property_name, property) ==
    IF property.ref_key # None
    THEN [ok |-> TRUE, err |-> "",
          tp |-> Type(<<>>, <<IdentText(to_camel_case(property.ref_key[1]))>>),
          local |-> None]
    ELSE IF is_local_enum(property)
    THEN LET Local(enum) == [ok |-> TRUE, err |-> "", tp |-> enum.tp_name, local |-> Some(enum.tp)]
         IN Local(create_enum(namespace, property_name, property))
    ELSE IF is_local_struct(property)
    THEN LET Local(tps) ==
                 IF ~tps.ok THEN [ok |-> FALSE, err |-> tps.err, tp |-> Type(<<>>, <<>>), local |-> None]
                 ELSE [ok |-> TRUE, err |-> "",
                       tp |-> Type(<<>>, namespace \o <<IdentText(to_camel_case(property_name))>>),
                       local |-> Some(tps.streams[1])]
         IN Local(struct_streams(property_name, property))
    ELSE LET Plain(type_name) ==
                 [ok |-> type_name.ok, err |-> type_name.err, tp |-> type_name.tp, local |-> None]
         IN Plain(type_name_for_schema(property.schema))

\* create_struct, the loop over the properties: the field of one property
struct_field(ns, required, property_name, field_type) ==
    LET nm == IdentText(to_snake_case(property_name))
        is_required == \E i \in 1..Len(required) : required[i] = property_name
    IN Field(FALSE,
             IF nm = property_name THEN None ELSE Some(property_name),
             ~is_required,
             nm,
             require(is_required, field_type.tp))

struct_streams(struct_name, schema) ==
    LET ns == IdentText(to_snake_case(struct_name))
        nm == IdentText(to_camel_case(struct_name))
        Streams(flattened, field_types) ==
            IF FirstError(flattened) # <<>>
            THEN [ok |-> FALSE, err |-> FirstError(flattened)[1], streams |-> <<>>]
            ELSE IF FirstError(field_types) # <<>>
            THEN [ok |-> FALSE, err |-> FirstError(field_types)[1], streams |-> <<>>]
            ELSE LET props == [i \in 1..Len(flattened) |-> flattened[i].field]
                              \o [i \in 1..Len(field_types) |->
                                     struct_field(ns, schema.schema.required,
                                                  schema.schema.properties[i].key,
                                                  field_types[i])]
                     with_local == SelectSeq(field_types, LAMBDA t : t.local # None)
                     local_types == [i \in 1..Len(with_local) |-> with_local[i].local[1]]
                     st == Decl("struct", nm, Type(<<>>, <<>>), <<>>, props, <<>>)
                 IN [ok |-> TRUE, err |-> "",
                     streams |-> IF Len(local_types) > 0
                                 THEN <<st, Decl("mod", ns, Type(<<>>, <<>>), <<>>, <<>>,
                                                 local_types)>>
                                 ELSE <<st>>]
    IN Streams([i \in 1..Len(schema.schema.all_of) |-> flatten_field(schema.schema.all_of[i])],
               [i \in 1..Len(schema.schema.properties) |->
                   struct_field_type(<<ns>>, schema.schema.properties[i].key,
                                     schema.schema.properties[i].value)])

\* create_models, third loop, one schema: the streams added to the file
schema_streams(schema_name, schema) ==
    IF is_schema_an_array(schema) THEN vec_alias(schema_name, schema)
    ELSE IF is_local_enum(schema)
    THEN [ok |-> TRUE, err |-> "", streams |-> <<create_enum(<<>>, schema_name, schema).tp>>]
    ELSE struct_streams(schema_name, schema)

\* create_models, third loop: the file, what was emitted for each schema, and
\* the names a warning was printed for
RECURSIVE models_file(_, _, _, _)
models_file(all_schemas, schema_names, emitted, warned) ==
    IF all_schemas = <<>>
    THEN [ok |-> TRUE, err |-> "", emitted |-> emitted, warned |-> warned,
          file |-> Flatten([i \in 1..Len(emitted) |-> emitted[i].streams])]
    ELSE LET entry == Head(all_schemas)
             Added(tp) ==
                 IF ~tp.ok
                 THEN [ok |-> FALSE, err |-> tp.err, emitted |-> emitted, warned |-> warned,
                       file |-> <<>>]
                 ELSE models_file(Tail(all_schemas), schema_names \cup {entry.key.name},
                                  Append(emitted, [key |-> entry.key, value |-> entry.value,
                                                   streams |-> tp.streams]),
                                  warned)
         IN IF entry.key.name \in schema_names
            THEN models_file(Tail(all_schemas), schema_names, emitted, Append(warned, entry.key))
            ELSE Added(schema_streams(entry.key.name, entry.value))

(***************************************************************************)
(* The schemas the declarations are emitted for                            *)
(***************************************************************************)
\* a schema with the names of its required properties
SchemaOf(type_, enum_, items, all_of, properties, required) ==
    [type_ |-> type_, enum_ |-> enum_, items |-> items, all_of |-> all_of,
     properties |-> properties, required |-> required]

\* a reference to the schema of a name, and a schema written in place
RefTo(name) == [reference |-> Some(name), item |-> None]

InPlace(schema) == [reference |-> None, item |-> Some(schema)]

\* ResolvedSchema: of a reference, and of a schema written in place
ResolvedRef(name, schema) == [ref_key |-> Some(name), schema |-> schema]

ResolvedInline(schema) == [ref_key |-> None, schema |-> schema]

StringSchema == SchemaOf(Some("string"), <<>>, None, <<>>, <<>>, <<>>)

ObjectSchema(properties, required, all_of) ==
    SchemaOf(Some("object"), <<>>, None, all_of, properties, required)

EnumSchema == SchemaOf(Some("string"), <<<<"a">>, <<"A", "b">>>>, None, <<>>, <<>>, <<>>)

ArraySchema == SchemaOf(Some("array"), <<>>, Some(RefTo(<<"A", "b">>)), <<>>, <<>>, <<>>)

\* the deepest nesting of object schemas written in place in a property
MaxNesting == 2

\* the longest list of properties of a schema
MaxProperties == 2

PropertyNames == {<<"a", "b">>, <<"a", "B">>, <<"a", "s">>}

SchemaNames == {<<"A", "b">>, <<"a", "b">>, <<"b">>}

\* the properties: a reference, a string, an enum written in place, and
\* objects written in place that hold one of these
LeafProperties ==
    { ResolvedRef(<<"A", "b">>, ObjectSchema(<<>>, <<>>, <<>>)),
      ResolvedInline(StringSchema),
      ResolvedInline(EnumSchema) }

RECURSIVE PropertyShapes(_)
PropertyShapes(depth) ==
    IF depth = 0 THEN LeafProperties
    ELSE LeafProperties
         \cup { ResolvedInline(ObjectSchema(<<[key |-> <<"a", "b">>, value |-> p]>>, <<>>, <<>>)) :
                    p \in PropertyShapes(depth - 1) }

\* the order of the properties in the document
PropertyOrder == <<<<"a", "b">>, <<"a", "B">>, <<"a", "s">>>>

PropertyRank(name) == CHOOSE n \in 1..Len(PropertyOrder) : PropertyOrder[n] = name

\* the lists of properties with distinct names, in the order of the document
PropertyLists ==
    { ps \in SeqsUpTo([key : PropertyNames, value : PropertyShapes(MaxNesting)], MaxProperties) :
        \A i, j \in 1..Len(ps) : i < j => PropertyRank(ps[i].key) < PropertyRank(ps[j].key) }

RequiredLists ==
    { <<>>, <<<<"a", "b">>>>, <<<<"a", "B">>, <<"a", "s">>>>,
      <<<<"a", "b">>, <<"a", "B">>, <<"a", "s">>>> }

AllOfLists ==
    { <<>>, <<RefTo(<<"A", "b">>)>>, <<InPlace(StringSchema)>>,
      <<InPlace(ObjectSchema(<<>>, <<>>, <<>>))>>,
      <<RefTo(<<"A", "b">>), InPlace(ObjectSchema(<<>>, <<>>, <<>>))>> }

\* a struct has a list of required names or a list of allOf entries
StructSchemas ==
    { ResolvedInline(ObjectSchema(ps, required, <<>>)) :
        ps \in PropertyLists, required \in RequiredLists }
    \cup { ResolvedInline(ObjectSchema(ps, <<>>, all_of)) :
              ps \in PropertyLists, all_of \in AllOfLists }

\* an array, an enum, a string and an object without properties
SimpleSchemas ==
    { ResolvedInline(ArraySchema), ResolvedInline(EnumSchema), ResolvedInline(StringSchema),
      ResolvedInline(ObjectSchema(<<>>, <<>>, <<>>)) }

\* all_schemas: one schema of a file, or a schema of each of two files
SchemaLists ==
    { <<[key |-> RefKey("a", name), value |-> schema]>> :
        name \in SchemaNames, schema \in StructSchemas \cup SimpleSchemas }
    \cup { <<[key |-> RefKey("a", n1), value |-> s1], [key |-> RefKey("b", n2), value |-> s2]>> :
              n1 \in SchemaNames, n2 \in SchemaNames, s1 \in SimpleSchemas, s2 \in SimpleSchemas }

DeclInit ==
    /\ dc_schemas \in SchemaLists
    /\ dc_out = <<>>
    /\ dpc = "start"
    /\ PathIdle /\ RefIdle /\ IdentIdle /\ GraphIdle
    /\ RunIdle /\ FnIdle /\ NameIdle /\ HashIdle /\ CrateIdle /\ ReachIdle /\ TplIdle

declRest ==
    <<pathVars, refVars, identVars, graphVars, runVars, fnVars, nameVars, hashVars, crateVars,
      reachVars, tplVars>>

\* create_models, the third loop on the collected schemas
EmitDeclarations ==
    /\ dpc = "start"
    /\ dc_out' = models_file(dc_schemas, {}, <<>>, <<>>)
    /\ dpc' = "done"
    /\ UNCHANGED <<dc_schemas, declRest>>

DeclNext == EmitDeclarations

SpecDecl == DeclInit /\ [][DeclNext]_vars

(***************************************************************************)
(* Claims about the declarations                                           *)
(***************************************************************************)
EmittedSchemas == IF dpc = "done" /\ dc_out.ok THEN dc_out.emitted ELSE <<>>

\* the declarations of types among some declarations, the modules left out
TypeDecls(decls) == SelectSeq(decls, LAMBDA d : d.kind # "mod")

IsPrimitive(schema) ==
    /\ schema.type_ \in {Some("string"), Some("integer"), Some("number"), Some("boolean")}
    /\ schema.enum_ = <<>>
    /\ schema.properties = <<>>
    /\ schema.all_of = <<>>

\* C24: each emitted top-level schema gets one declaration, of the kind its
\* shape asks for: an alias to a Vec for an array, an enum for a schema with
\* enum values, a struct for a schema with properties or allOf, and an alias
\* to the primitive type for a primitive schema.
C24_AsClaimed ==
    \A k \in 1..Len(EmittedSchemas) :
        LET schema == EmittedSchemas[k].value.schema
            decls == TypeDecls(EmittedSchemas[k].streams)
        IN /\ Len(decls) = 1
           /\ schema.type_ = Some("array") =>
                 decls[1].kind = "type" /\ decls[1].tp.wrap # <<>> /\ decls[1].tp.wrap[1] = VecT
           /\ (schema.type_ # Some("array") /\ schema.enum_ # <<>>) => decls[1].kind = "enum"
           /\ (schema.type_ # Some("array") /\ schema.enum_ = <<>>
               /\ (schema.properties # <<>> \/ schema.all_of # <<>>)) => decls[1].kind = "struct"
           /\ IsPrimitive(schema) =>
                 decls[1].kind = "type" /\ decls[1].tp = type_name_for_schema(schema).tp

\* the struct of a schema and the schema, for the top-level schemas and for
\* the objects written in place in their properties
StructsWithSchema ==
    LET Top(e) == <<[decl |-> e.streams[1], schema |-> e.value.schema]>>
        Local(e) ==
            LET inline == SelectSeq(e.value.schema.properties,
                                    LAMBDA p : p.value.ref_key = None /\ ~is_local_enum(p.value)
                                               /\ is_local_struct(p.value))
                Of(p) == SelectSeq(IF Len(e.streams) > 1 THEN e.streams[2].types ELSE <<>>,
                                   LAMBDA d : d.kind = "struct"
                                              /\ d.id = IdentText(to_camel_case(p.key)))
            IN Flatten([i \in 1..Len(inline) |->
                           [j \in 1..Len(Of(inline[i])) |->
                               [decl |-> Of(inline[i])[j], schema |-> inline[i].value.schema]]])
        structs == SelectSeq(EmittedSchemas, LAMBDA e : e.streams[1].kind = "struct")
    IN Flatten([k \in 1..Len(structs) |-> Top(structs[k]) \o Local(structs[k])])

OptionWrapped(tp) == tp.wrap # <<>> /\ tp.wrap[1] = OptionT

\* C25: in every emitted struct the field of a property has an Option type
\* exactly when the property is not listed as required, has the
\* skip_serializing_if attribute exactly when it has an Option type, and has
\* a rename attribute, with the name of the property, exactly when the
\* identifier made of the snake case of the name differs from the name.
C25_Fields ==
    LET FieldOk(schema, name, field) ==
            LET listed == name \in {schema.required[j] : j \in 1..Len(schema.required)}
            IN /\ ~field.flatten
               /\ OptionWrapped(field.tp) <=> ~listed
               /\ field.skip_serializing_if <=> ~listed
               /\ field.id = ident(to_snake_case(name)).text
               /\ field.rename # None <=> field.id # name
               /\ field.rename # None => field.rename = Some(name)
        StructOk(decl, schema) ==
            /\ Len(decl.fields) = Len(schema.all_of) + Len(schema.properties)
            /\ \A i \in 1..Len(schema.properties) :
                  FieldOk(schema, schema.properties[i].key,
                          decl.fields[Len(schema.all_of) + i])
        AllOk(structs) == \A k \in 1..Len(structs) : StructOk(structs[k].decl, structs[k].schema)
    IN AllOk(StructsWithSchema)

\* a struct was emitted with a required field that keeps its name and an
\* optional field that is renamed
C25_Witness ==
    \E k \in 1..Len(StructsWithSchema) :
        \E i, j \in 1..Len(StructsWithSchema[k].decl.fields) :
            LET f == StructsWithSchema[k].decl.fields[i]
                g == StructsWithSchema[k].decl.fields[j]
            IN /\ ~f.flatten /\ ~g.flatten
               /\ ~OptionWrapped(f.tp) /\ f.rename = None
               /\ OptionWrapped(g.tp) /\ g.rename # None /\ g.skip_serializing_if

FlattenFields(decl) == SelectSeq(decl.fields, LAMBDA f : f.flatten)

RefEntries(all_of) == SelectSeq(all_of, LAMBDA s : s.reference # None)

\* the flatten field claimed for a reference
FlattenOfRef(entry) ==
    LET name == ident(to_camel_case(entry.reference[1])).text
    IN Field(TRUE, None, FALSE, ident(to_snake_case(name)).text, Type(<<>>, <<name>>))

Qualified(field) == Len(field.tp.path) = 2 /\ field.tp.path[1] # SerdeJsonT

\* among the declarations there is the module ns and in it the type id
DeclaredIn(decls, ns, id) ==
    \E i \in 1..Len(decls) :
        /\ decls[i].kind = "mod"
        /\ decls[i].id = ns
        /\ \E j \in 1..Len(decls[i].types) :
              decls[i].types[j].kind # "mod" /\ decls[i].types[j].id = id

\* C28: for every field, of a top-level struct or of a struct in a module of
\* local types, whose type is a path ns::Id, the file declares Id in the
\* module ns: at the top level, which a module of local types sees through
\* `use super::*`, or in the module of the struct itself.
C28_AsClaimed ==
    dpc = "done" /\ dc_out.ok =>
        \A i \in 1..Len(dc_out.file) :
            LET decl == dc_out.file[i]
            IN /\ decl.kind = "struct" =>
                     \A f \in 1..Len(decl.fields) :
                         Qualified(decl.fields[f]) =>
                             DeclaredIn(dc_out.file, decl.fields[f].tp.path[1],
                                        decl.fields[f].tp.path[2])
               /\ decl.kind = "mod" =>
                     \A j \in 1..Len(decl.types) :
                         decl.types[j].kind = "struct" =>
                             \A f \in 1..Len(decl.types[j].fields) :
                                 Qualified(decl.types[j].fields[f]) =>
                                     \/ DeclaredIn(decl.types, decl.types[j].fields[f].tp.path[1],
                                                   decl.types[j].fields[f].tp.path[2])
                                     \/ DeclaredIn(dc_out.file, decl.types[j].fields[f].tp.path[1],
                                                   decl.types[j].fields[f].tp.path[2])

\* C30: no two declarations of types at the top level of the models file
\* have the same identifier.
C30_AsClaimed ==
    dpc = "done" /\ dc_out.ok =>
        LET decls == TypeDecls(dc_out.file)
        IN \A i, j \in 1..Len(decls) : decls[i].id = decls[j].id => i = j

(***************************************************************************)
(* The path template of a generated function: parse_params, format_path    *)
(* and the format! arguments of create_function (src/codegen.rs)           *)
(***************************************************************************)
\* the class \w of the regex
IsWord(ch) == ch \in Letters \/ ch \in Digits \/ ch = "_"

\* the end of the longest run of \w characters that starts at i, i - 1 if none does
RECURSIVE WordEnd(_, _)
WordEnd(path, i) ==
    IF i <= Len(path) /\ IsWord(path[i]) THEN WordEnd(path, i + 1) ELSE i - 1

\* Regex::new(r"\{(\w+)\}"): the end of the match that starts at i, 0 if none does
MatchEnd(path, i) ==
    IF /\ path[i] = "{"
       /\ WordEnd(path, i + 1) >= i + 1
       /\ WordEnd(path, i + 1) < Len(path)
       /\ path[WordEnd(path, i + 1) + 1] = "}"
    THEN WordEnd(path, i + 1) + 1
    ELSE 0

\* parse_params: captures_iter, capture 1 of each match from the left
RECURSIVE parse_params_from(_, _)
parse_params_from(path, i) ==
    IF i > Len(path) THEN <<>>
    ELSE IF MatchEnd(path, i) > 0
    THEN <<SubSeq(path, i + 1, MatchEnd(path, i) - 1)>> \o parse_params_from(path, MatchEnd(path, i) + 1)
    ELSE parse_params_from(path, i + 1)

parse_params(path) == parse_params_from(path, 1)

\* format_path: replace_all(path, "{}")
RECURSIVE format_path_from(_, _)
format_path_from(path, i) ==
    IF i > Len(path) THEN <<>>
    ELSE IF MatchEnd(path, i) > 0
    THEN <<"{", "}">> \o format_path_from(path, MatchEnd(path, i) + 1)
    ELSE <<path[i]>> \o format_path_from(path, i + 1)

format_path(path) == format_path_from(path, 1)

\* create_function: the format string and the arguments after base_path of
\* format!(#fpath, &configuration.base_path, #uri_str_args)
uri_str(path) ==
    [fpath |-> <<"{", "}">> \o format_path(path),
     uri_str_args |-> [i \in 1..Len(parse_params(path)) |->
                          IdentText(to_snake_case(parse_params(path)[i]))]]

\* the {name} placeholders of a path, from the left: the text between a "{"
\* and the first "}" after it, with no "{" between
RECURSIVE Placeholders(_, _)
Placeholders(path, i) ==
    IF i > Len(path) THEN <<>>
    ELSE LET closing == {j \in (i + 1)..Len(path) :
                            /\ path[j] = "}"
                            /\ \A k \in (i + 1)..(j - 1) : path[k] \notin {"{", "}"}}
         IN IF path[i] = "{" /\ closing # {}
            THEN LET j == CHOOSE c \in closing : TRUE
                 IN <<SubSeq(path, i + 1, j - 1)>> \o Placeholders(path, j + 1)
            ELSE Placeholders(path, i + 1)

\* a path template: its braces are those of its placeholders, and the name
\* of a placeholder is not empty and has no "/"
IsTemplate(path) ==
    /\ \A b \in {"{", "}"} :
          Cardinality({i \in 1..Len(path) : path[i] = b}) = Len(Placeholders(path, 1))
    /\ \A i \in 1..Len(Placeholders(path, 1)) :
          /\ Placeholders(path, 1)[i] # <<>>
          /\ \A k \in 1..Len(Placeholders(path, 1)[i]) : Placeholders(path, 1)[i][k] # "/"

\* the longest path
MaxTemplateLen == 6

TemplateChars == {"/", "{", "}", "a", "B", "-"}

TplInit ==
    /\ tpl_path \in {path \in SeqsUpTo(TemplateChars, MaxTemplateLen) : IsTemplate(path)}
    /\ tpl_out = <<>>
    /\ tpc = "start"
    /\ PathIdle /\ RefIdle /\ IdentIdle /\ GraphIdle
    /\ RunIdle /\ FnIdle /\ NameIdle /\ HashIdle /\ CrateIdle /\ ReachIdle /\ DeclIdle

tplRest ==
    <<pathVars, refVars, identVars, graphVars, runVars, fnVars, nameVars, hashVars, crateVars,
      reachVars, declVars>>

\* create_function, from parse_params to fpath
FormatPath ==
    /\ tpc = "start"
    /\ tpl_out' = uri_str(tpl_path)
    /\ tpc' = "done"
    /\ UNCHANGED <<tpl_path, tplRest>>

TplNext == FormatPath

SpecTpl == TplInit /\ [][TplNext]_vars

\* the positions of a format string where a positional {} starts
Positionals(fpath) == {i \in 1..(Len(fpath) - 1) : fpath[i] = "{" /\ fpath[i + 1] = "}"}

\* C27: each {name} placeholder of the path is replaced by a positional {}
\* and its name collected: after the {} of the base path the format string
\* has as many {} as there are arguments, the arguments are the snake case
\* identifiers of the names of the placeholders in their order, and the
\* format string has no placeholder with a name.
C27_AsClaimed ==
    tpc = "done" =>
        /\ Cardinality(Positionals(tpl_out.fpath)) = 1 + Len(tpl_out.uri_str_args)
        /\ Len(tpl_out.uri_str_args) = Len(Placeholders(tpl_path, 1))
        /\ \A i \in 1..Len(tpl_out.uri_str_args) :
              tpl_out.uri_str_args[i] = ident(to_snake_case(Placeholders(tpl_path, 1)[i])).text
        /\ \A i \in 1..Len(Placeholders(tpl_out.fpath, 1)) :
              Placeholders(tpl_out.fpath, 1)[i] = <<>>

(***************************************************************************)
(* C29: the types the functions name and the types the models declare      *)
(***************************************************************************)
\* the names of the schemas the models unit declares a type for
DeclaredNames == {models.emitted[j].key.name : j \in 1..Len(models.emitted)}

\* the functions of the operations unit
EmittedFunctions == SelectSeq(client.functions, LAMBDA f : f.ok)

\* C29: when both units are generated, every schema that the type of a
\* parameter or the return type of an emitted function names is declared in
\* the models unit, also when it is reached only through a parameter
\* definition that is referred to or through an operation of a document that
\* is no input file.
C29_AsClaimed ==
    (models.called /\ models.ok /\ client.called /\ client.ok) =>
        \A i \in 1..Len(EmittedFunctions) : EmittedFunctions[i].names \subseteq DeclaredNames

====
